---- MODULE Spec2Model ----
(***************************************************************************)
(* A model of sentinel-visor's lease-based message processor               *)
(* (MessageProcessor, chain/message), of the block processor loop          *)
(* (Processor.Start) and of the gap auditor (GapIndexer, GapFiller,        *)
(* chain/gap).                                                             *)
(***************************************************************************)
EXTENDS Integers, Sequences, FiniteSets, TLC

(***************************************************************************)
(* Bounds of the model.                                                    *)
(***************************************************************************)
\* number of rows of the lease store (visor_processing_tipsets)
NumItems == 3
\* the clock runs from 0 to MaxTime
MaxTime == 4
\* leaseLength of NewMessageProcessor, in clock ticks
LeaseLength == 2
\* batchSize of NewMessageProcessor
BatchSize == 2
\* minHeight of NewMessageProcessor
MinHeight == 1

Workers == {"A", "B"}
Items == 1..NumItems
\* the row i is the tipset of height i - 1
ItemHeight(i) == i - 1
\* maxHeight of NewMessageProcessor
MaxHeightCfg == NumItems - 1

\* err.Error() of a failed extraction (processItem)
ErrTexts == {"get tipset: unavailable"}
\* the error of a failed lease query
LeaseErr == "lease: store unavailable"
\* ctx.Err() of a cancelled context
CtxErr == "context canceled"
\* the error of a failed completion write
MarkErr == "mark complete: store unavailable"

VARIABLES
    now,         \* the clock (p.clock.Now())
    cancelled,   \* the parent context is cancelled
    store,       \* lease store: item -> [state, until, detail]
    pc,          \* each worker's position in Run / processBatch
    batch,       \* each worker's leased items still to process
    claimUntil,  \* each worker's claimUntil of the current batch
    runErr,      \* what Run returned, "" while running or after a clean stop
    leasedTo,    \* history: the rows each worker's last lease query returned
    ev,          \* history: the last store operation
    procPc,      \* Processor.Start's goroutine: [pc, err]
    reports,     \* completion records (visor_processing_reports)
    nullRounds,  \* the epochs of the chain at which no block was produced
    gaps,        \* the gap ledger (visor_gap_reports)
    ipc,         \* GapIndexer.Run's position
    audit,       \* how the current / last run of GapIndexer.Run went
    heightGaps,  \* GapIndexer.Run's heightGaps
    skipGaps,    \* GapIndexer.Run's skipGaps
    fpc,         \* GapFiller.Run's position
    fillTasks,   \* GapFiller.tasks
    fillGaps,    \* GapFiller.Run's gaps (the Status fields are set in place)
    jobs,        \* history: the re-drives of the current run of GapFiller.Run
    passes,      \* the number of runs of the find and fill jobs started so far
    call         \* a call of a function of the program: [fn, arg, out, done]

schedVars == <<now, cancelled, store, pc, batch, claimUntil, runErr, leasedTo, ev, procPc>>

gapVars == <<reports, nullRounds, gaps, ipc, audit, heightGaps, skipGaps, fpc, fillTasks, fillGaps, jobs, passes>>

vars == <<schedVars, gapVars, call>>

Min(a, b) == IF a < b THEN a ELSE b

Range(s) == {s[k] : k \in 1..Len(s)}

(***************************************************************************)
(* The lease store.  The state machine of one row is                       *)
(*   pending -> leased(until) -> done(detail)                              *)
(* and detail = "" is a success.                                           *)
(***************************************************************************)
PendingRow == [state |-> "pending", until |-> 0, detail |-> ""]

LeasedRow(until) == [state |-> "leased", until |-> until, detail |-> ""]

\* a row with message_completed_at set; detail is message_errors_detected
DoneRow(detail) == [state |-> "done", until |-> 0, detail |-> detail]

\* a lease is expired once the clock is past its until
Expired(row, t) == row.state = "leased" /\ t > row.until

\* mutant: a lease counts as expired as soon as the clock reaches its until
EligibleOffByOne(st, t, minH, maxH) ==
    {i \in Items : /\ st[i].state = "pending" \/ (st[i].state = "leased" /\ t >= st[i].until)
                   /\ minH <= ItemHeight(i)
                   /\ ItemHeight(i) <= maxH}

\* mutant: an expired lease is never reclaimed
EligiblePendingOnly(st, t, minH, maxH) ==
    {i \in Items : /\ st[i].state = "pending"
                   /\ minH <= ItemHeight(i)
                   /\ ItemHeight(i) <= maxH}

\* mutant: a completed row is leased again
EligibleAlsoDone(st, t, minH, maxH) ==
    {i \in Items : /\ st[i].state \in {"pending", "done"} \/ Expired(st[i], t)
                   /\ minH <= ItemHeight(i)
                   /\ ItemHeight(i) <= maxH}

\* the rows a lease query issued at time t may claim
Eligible(st, t, minH, maxH) ==
    {i \in Items : /\ st[i].state = "pending" \/ Expired(st[i], t)
                   /\ minH <= ItemHeight(i)
                   /\ ItemHeight(i) <= maxH}

\* mutant: the limit is ignored
LeaseChoicesUnlimited(st, t, limit, minH, maxH) == {Eligible(st, t, minH, maxH)}

\* the sets of rows one lease query may return: up to limit eligible rows
LeaseChoices(st, t, limit, minH, maxH) ==
    LET el == Eligible(st, t, minH, maxH)
    IN  {S \in SUBSET el : Cardinality(S) = Min(limit, Cardinality(el))}

\* the store after the rows S were claimed until `until`
LeaseTipSetMessages(st, S, until) ==
    [i \in Items |-> IF i \in S THEN LeasedRow(until) ELSE st[i]]

\* the rows of S as a list, highest first
RECURSIVE BatchOf(_)
BatchOf(S) ==
    IF S = {} THEN <<>>
    ELSE LET top == CHOOSE i \in S : \A j \in S : ItemHeight(j) <= ItemHeight(i)
         IN  <<top>> \o BatchOf(S \ {top})

\* mutant: a completion that arrives after the lease expired is dropped
MarkTipSetMessagesCompleteIfLive(st, i, at, detail) ==
    IF st[i].state = "leased" /\ ~Expired(st[i], at) THEN [st EXCEPT ![i] = DoneRow(detail)] ELSE st

\* mutant: the completion is written over whatever the row holds
MarkTipSetMessagesCompleteAnyRow(st, i, at, detail) == [st EXCEPT ![i] = DoneRow(detail)]

\* CompleteItem: leased -> done, whether or not the lease has expired
MarkTipSetMessagesComplete(st, i, at, detail) ==
    IF st[i].state = "leased" THEN [st EXCEPT ![i] = DoneRow(detail)] ELSE st

NoEv == [op |-> "none", w |-> "", item |-> 0, detail |-> "", ok |-> TRUE, late |-> FALSE]

(***************************************************************************)
(* MessageProcessor.Run / processBatch, one worker w.                      *)
(***************************************************************************)
\* processBatch up to the lease query and the empty-batch return
processBatchLease(w) ==
    /\ pc[w] = "idle"
    /\ ~cancelled
    /\ LET until == now + LeaseLength IN
       \/ \* the lease query fails: processBatch returns (true, err), Run returns err
          /\ pc' = [pc EXCEPT ![w] = "exited"]
          /\ runErr' = [runErr EXCEPT ![w] = LeaseErr]
          /\ ev' = [NoEv EXCEPT !.op = "lease", !.w = w, !.ok = FALSE]
          /\ UNCHANGED <<store, batch, claimUntil, leasedTo>>
       \/ \E S \in LeaseChoices(store, now, BatchSize, MinHeight, MaxHeightCfg) :
          /\ store' = LeaseTipSetMessages(store, S, until)
          /\ batch' = [batch EXCEPT ![w] = BatchOf(S)]
          /\ claimUntil' = [claimUntil EXCEPT ![w] = until]
          /\ leasedTo' = [leasedTo EXCEPT ![w] = S]
          /\ pc' = [pc EXCEPT ![w] = IF S = {} THEN "idle" ELSE "working"]
          /\ ev' = [NoEv EXCEPT !.op = "lease", !.w = w]
          /\ UNCHANGED runErr
    /\ UNCHANGED <<now, cancelled, procPc, gapVars, call>>

\* mutant: only the parent's cancellation ends a batch
CtxDoneParentOnly(w) == cancelled

\* the deadline context of the batch is done
CtxDone(w) == cancelled \/ now >= claimUntil[w]

\* the head of the item loop: stop at the deadline, else start processItem
processBatchNext(w) ==
    /\ pc[w] = "working"
    /\ IF CtxDone(w)
       THEN /\ pc' = [pc EXCEPT ![w] = "idle"]
            /\ batch' = [batch EXCEPT ![w] = <<>>]
            /\ UNCHANGED ev
       ELSE /\ pc' = [pc EXCEPT ![w] = "extracting"]
            /\ UNCHANGED <<batch, ev>>
    /\ UNCHANGED <<now, cancelled, store, claimUntil, runErr, leasedTo, procPc, gapVars, call>>

\* mutant: the first failed item ends the batch
RestAfterAbort(w, detail) == IF detail = "" THEN Tail(batch[w]) ELSE <<>>

\* the items left once the current one is finished (continue / fall through)
RestAfter(w, detail) == Tail(batch[w])

\* mutant: an error of the completion write is returned to Run
AfterItemFatal(w, rest, markOk) ==
    IF ~markOk THEN "exited" ELSE IF rest = <<>> THEN "idle" ELSE "working"

\* where the worker goes once an item is finished: errors are only logged
AfterItem(w, rest, markOk) == IF rest = <<>> THEN "idle" ELSE "working"

\* mutant: no completion is written once the batch's deadline has passed
CompletionWriteUnlessExpired(w, item, detail, markOk) ==
    IF markOk /\ ~CtxDone(w) THEN MarkTipSetMessagesComplete(store, item, now, detail) ELSE store

\* the store after the completion write of an item; the write itself may fail
CompletionWrite(w, item, detail, markOk) ==
    IF markOk THEN MarkTipSetMessagesComplete(store, item, now, detail) ELSE store

\* processItem returns (detail = "" is success) and the completion is written
processItemDone(w) ==
    /\ pc[w] = "extracting"
    /\ \E detail \in {""} \cup ErrTexts, markOk \in BOOLEAN :
       LET item == Head(batch[w])
           rest == RestAfter(w, detail)
       IN  /\ store' = CompletionWrite(w, item, detail, markOk)
           /\ batch' = [batch EXCEPT ![w] = rest]
           /\ pc' = [pc EXCEPT ![w] = AfterItem(w, rest, markOk)]
           /\ runErr' = [runErr EXCEPT ![w] = IF pc'[w] = "exited" THEN MarkErr ELSE @]
           /\ ev' = [op |-> "complete", w |-> w, item |-> item, detail |-> detail, ok |-> markOk,
                     late |-> now > claimUntil[w]]
    /\ UNCHANGED <<now, cancelled, claimUntil, leasedTo, procPc, gapVars, call>>

\* wait.RepeatUntil sees the cancelled context between two batches
RunCancelled(w) ==
    /\ pc[w] = "idle"
    /\ cancelled
    /\ pc' = [pc EXCEPT ![w] = "exited"]
    /\ runErr' = [runErr EXCEPT ![w] = CtxErr]
    /\ UNCHANGED <<now, cancelled, store, batch, claimUntil, leasedTo, ev, procPc, gapVars, call>>

\* the worker's process dies and leaves its leases behind
Crash(w) ==
    /\ pc[w] \in {"working", "extracting"}
    /\ pc' = [pc EXCEPT ![w] = "crashed"]
    /\ UNCHANGED <<now, cancelled, store, batch, claimUntil, runErr, leasedTo, ev, procPc, gapVars, call>>

Tick ==
    /\ now < MaxTime
    /\ now' = now + 1
    /\ UNCHANGED <<cancelled, store, pc, batch, claimUntil, runErr, leasedTo, ev, procPc, gapVars, call>>

Cancel ==
    /\ ~cancelled
    /\ cancelled' = TRUE
    /\ UNCHANGED <<now, store, pc, batch, claimUntil, runErr, leasedTo, ev, procPc, gapVars, call>>

(***************************************************************************)
(* Processor.Start: one iteration of the goroutine's loop.                 *)
(***************************************************************************)
ProcessorFailures == {"collect blocks: failed", "collect actor changes: failed", "dispatch: failed"}

ProcessorOutcomes == ProcessorFailures \cup {"no blocks", "dispatched"}

\* mutant: a failure is dropped and the loop goes on
StartNextKeepsRunning(outcome) == [pc |-> "running", err |-> ""]

\* the goroutine's position after an iteration with this outcome: panic(err)
StartNext(outcome) ==
    IF outcome \in ProcessorFailures
    THEN [pc |-> "panicked", err |-> outcome]
    ELSE [pc |-> "running", err |-> ""]

Start ==
    /\ procPc.pc = "running"
    /\ IF cancelled
       THEN procPc' = [pc |-> "stopped", err |-> ""]
       ELSE \E outcome \in ProcessorOutcomes : procPc' = StartNext(outcome)
    /\ UNCHANGED <<now, cancelled, store, pc, batch, claimUntil, runErr, leasedTo, ev, gapVars, call>>

SchedInit ==
    /\ now = 0
    /\ cancelled = FALSE
    /\ store = [i \in Items |-> PendingRow]
    /\ pc = [w \in Workers |-> "idle"]
    /\ batch = [w \in Workers |-> <<>>]
    /\ claimUntil = [w \in Workers |-> 0]
    /\ runErr = [w \in Workers |-> ""]
    /\ leasedTo = [w \in Workers |-> {}]
    /\ ev = NoEv
    /\ procPc = [pc |-> "running", err |-> ""]

SchedNext ==
    \/ \E w \in Workers : processBatchLease(w)
    \/ \E w \in Workers : processBatchNext(w)
    \/ \E w \in Workers : processItemDone(w)
    \/ \E w \in Workers : RunCancelled(w)
    \/ \E w \in Workers : Crash(w)
    \/ Tick
    \/ Cancel
    \/ Start


(***************************************************************************)
(* The chain source and the two tables the gap auditor works on.           *)
(***************************************************************************)
\* the chain has the epochs 0..TopHeight; epoch 0 and TopHeight have blocks
TopHeight == 2
\* there are at most MaxReports completion records
MaxReports == 2
\* at most MaxFailures re-drives fail
MaxFailures == 1
\* the find and fill jobs are run at most MaxPasses times in all
MaxPasses == 2

Heights == 0..TopHeight

\* chain.AllTasks
AllTasks == <<"blocks", "messages">>

\* visor.ProcessingStatusOK, ProcessingStatusSkip, ProcessingStatusError
ReportStatuses == {"OK", "SKIP", "ERROR"}

\* the -tasks filters a GapFiller is built with
TaskFilters == {<<>>, <<"messages">>}

\* err.Error() of a re-drive that failed (NewTipSetIndexer or walker.Run)
FillErr == "walk: failed"

\* the key of the tipset the chain has at a height with blocks
Key(h) == <<h, "main">>

\* ChainGetTipSetByHeight: the tipset at h, or for a null round the next one above
TipSetByHeight(h) ==
    LET hh == CHOOSE x \in h..TopHeight :
                  /\ x \notin nullRounds
                  /\ \A y \in h..TopHeight : y \notin nullRounds => x <= y
    IN  [height |-> hh, key |-> Key(hh)]

GapReport(h, ts, task, status) ==
    [height |-> h, tipset |-> ts, task |-> task, status |-> status, reporter |-> "gapIndexer"]

\* the elements of a set of integers as a list, highest first
RECURSIVE Descending(_)
Descending(S) ==
    IF S = {} THEN <<>>
    ELSE LET top == CHOOSE x \in S : \A y \in S : y <= x
         IN  <<top>> \o Descending(S \ {top})

\* sort.Slice(maybeGap, less): insertion of x into an ascending list
RECURSIVE Insert(_, _)
Insert(x, s) ==
    IF s = <<>> THEN <<x>>
    ELSE IF x < Head(s) THEN <<x>> \o s
    ELSE <<Head(s)>> \o Insert(x, Tail(s))

RECURSIVE Sorted(_)
Sorted(s) == IF s = <<>> THEN <<>> ELSE Insert(Head(s), Sorted(Tail(s)))

\* the integers of lo..hi as a list, ascending (empty when lo > hi)
RECURSIVE Upto(_, _)
Upto(lo, hi) == IF lo > hi THEN <<>> ELSE <<lo>> \o Upto(lo + 1, hi)

\* the loop of findEpochGaps from index idx on, prev being prs[idx - 1]
RECURSIVE BetweenReports(_, _)
BetweenReports(prs, idx) ==
    IF idx > Len(prs) THEN <<>>
    ELSE Upto(prs[idx] + 1, prs[idx - 1] - 1) \o BetweenReports(prs, idx + 1)

\* mutant: the candidates are returned in the order they were collected
findEpochGapsUnsorted(prs) ==
    IF Len(prs) = 0 THEN <<>>
    ELSE BetweenReports(prs, 2) \o Upto(0, prs[Len(prs)] - 1)

\* mutant: only the heights between two records are candidates
findEpochGapsBetweenOnly(prs) ==
    IF Len(prs) = 0 THEN <<>>
    ELSE Sorted(BetweenReports(prs, 2))

\* prs: the recorded heights, distinct, highest first
findEpochGaps(prs) ==
    IF Len(prs) = 0 THEN <<>>
    ELSE Sorted(BetweenReports(prs, 2) \o Upto(0, prs[Len(prs)] - 1))

\* the query of detectProcessingGaps: the distinct heights, highest first
ReportHeights(rs) == Descending({r.height : r \in rs})

\* mutant: a gap is reported whatever tipset the chain returns
CandidateReportsUnchecked(gh, tsgap) ==
    [k \in 1..Len(AllTasks) |-> GapReport(tsgap.height, tsgap.key, AllTasks[k], "GAP")]

\* the reports of one candidate height gh, tsgap being the chain's answer for it
CandidateReports(gh, tsgap) ==
    IF tsgap.height = gh
    THEN [k \in 1..Len(AllTasks) |-> GapReport(tsgap.height, tsgap.key, AllTasks[k], "GAP")]
    ELSE <<>>

\* the loop of detectProcessingGaps over the candidate heights
RECURSIVE ProcessingGapsFrom(_, _)
ProcessingGapsFrom(cands, k) ==
    IF k > Len(cands) THEN <<>>
    ELSE CandidateReports(cands[k], TipSetByHeight(cands[k])) \o ProcessingGapsFrom(cands, k + 1)

detectProcessingGaps(rs) == ProcessingGapsFrom(findEpochGaps(ReportHeights(rs)), 1)

TaskIdx(t) == CHOOSE k \in 1..Len(AllTasks) : AllTasks[k] = t

\* ORDER BY height DESC; rows of one height come in the order of AllTasks
Rank(r) == r.height * Len(AllTasks) + (Len(AllTasks) - TaskIdx(r.task))

\* the rows of a set as a list, ORDER BY height DESC
RECURSIVE HeightDesc(_)
HeightDesc(rows) ==
    IF rows = {} THEN <<>>
    ELSE LET top == CHOOSE r \in rows : \A q \in rows : Rank(q) <= Rank(r)
         IN  <<top>> \o HeightDesc(rows \ {top})

\* the query of detectSkippedTipSets: the skipped records, highest first
SkippedReports(rs) == HeightDesc({r \in rs : r.status = "SKIP"})

detectSkippedTipSets(rs) ==
    LET sk == SkippedReports(rs)
    IN  [k \in 1..Len(sk) |-> GapReport(sk[k].height, TipSetByHeight(sk[k].height).key, sk[k].task, "GAP")]

SameKey(g, q) == g.height = q.height /\ g.tipset = q.tipset /\ g.task = q.task

\* mutant: a row of the list replaces the row of its key
RECURSIVE PersistBatchReplacing(_, _)
PersistBatchReplacing(ledger, list) ==
    IF list = <<>> THEN ledger
    ELSE LET g == Head(list)
         IN  PersistBatchReplacing({q \in ledger : ~SameKey(g, q)} \cup {g}, Tail(list))

\* the ledger after the rows of the list are inserted, existing keys left alone
RECURSIVE PersistBatch(_, _)
PersistBatch(ledger, list) ==
    IF list = <<>> THEN ledger
    ELSE LET g == Head(list)
         IN  PersistBatch(IF \E q \in ledger : SameKey(g, q) THEN ledger ELSE ledger \cup {g},
                          Tail(list))

(***************************************************************************)
(* The environment: the indexers write completion records.                 *)
(***************************************************************************)
\* what a change of the completion records means for a running / finished audit
Disturbed == IF ipc = "idle" THEN "none" ELSE "dirty"

\* the completion records the indexers can have written
ReportRows ==
    {[height |-> h, tipset |-> Key(h), task |-> AllTasks[k], status |-> status] :
        h \in Heights \ nullRounds, k \in 1..Len(AllTasks), status \in ReportStatuses}

\* a worker writes a completion record between the two queries of an audit
WriteReport ==
    /\ ipc = "heights"
    /\ Cardinality(reports) < MaxReports
    /\ \E row \in ReportRows :
       /\ ~\E r \in reports : r.height = row.height /\ r.task = row.task
       /\ reports' = reports \cup {row}
    /\ audit' = Disturbed
    /\ UNCHANGED <<nullRounds, gaps, ipc, heightGaps, skipGaps, fpc, fillTasks, fillGaps, jobs, passes, schedVars, call>>

(***************************************************************************)
(* GapIndexer.Run, in its three steps.                                     *)
(***************************************************************************)
\* mutant: a run that gives up persists what its first detector has found
RunFailsKeepingHeightGaps ==
    /\ ipc' = "idle"
    /\ audit' = "none"
    /\ heightGaps' = <<>>
    /\ skipGaps' = <<>>
    /\ gaps' = PersistBatch(gaps, heightGaps)

\* Run gives up: the error is returned and nothing is persisted
RunFails ==
    /\ ipc' = "idle"
    /\ audit' = "none"
    /\ heightGaps' = <<>>
    /\ skipGaps' = <<>>
    /\ UNCHANGED gaps

\* the find job and the fill job are run one after the other
RunDetectProcessingGaps ==
    /\ ipc = "idle"
    /\ fpc = "idle"
    /\ passes < MaxPasses
    /\ passes' = passes + 1
    /\ \/ /\ heightGaps' = detectProcessingGaps(reports)
          /\ ipc' = "heights"
          /\ audit' = "running"
          /\ UNCHANGED <<skipGaps, gaps>>
       \/ \* the query of the heights fails
          RunFails
       \/ \* ChainGetTipSetByHeight fails for a candidate height
          /\ findEpochGaps(ReportHeights(reports)) # <<>>
          /\ RunFails
    /\ UNCHANGED <<reports, nullRounds, fpc, fillTasks, fillGaps, jobs, schedVars, call>>

RunDetectSkippedTipSets ==
    /\ ipc = "heights"
    /\ \/ /\ skipGaps' = detectSkippedTipSets(reports)
          /\ ipc' = "skips"
          /\ UNCHANGED <<heightGaps, gaps, audit>>
       \/ \* the query of the skipped records fails
          RunFails
       \/ \* ChainGetTipSetByHeight fails for a skipped record
          /\ SkippedReports(reports) # <<>>
          /\ RunFails
    /\ UNCHANGED <<reports, nullRounds, fpc, fillTasks, fillGaps, jobs, passes, schedVars, call>>

\* mutant: the audit marks the skipped records it has re-emitted as handled
RunPersistMarkingSkips ==
    /\ ipc = "skips"
    /\ gaps' = PersistBatch(gaps, skipGaps \o heightGaps)
    /\ ipc' = "idle"
    /\ audit' = IF audit = "running" THEN "ok" ELSE audit
    /\ heightGaps' = <<>>
    /\ skipGaps' = <<>>
    /\ reports' = {[r EXCEPT !.status = IF @ = "SKIP" THEN "OK" ELSE @] : r \in reports}
    /\ UNCHANGED <<nullRounds, fpc, fillTasks, fillGaps, jobs, passes, schedVars, call>>

RunPersist ==
    /\ ipc = "skips"
    /\ \/ /\ gaps' = PersistBatch(gaps, skipGaps \o heightGaps)
          /\ ipc' = "idle"
          /\ audit' = IF audit = "running" THEN "ok" ELSE audit
          /\ heightGaps' = <<>>
          /\ skipGaps' = <<>>
       \/ \* PersistBatch fails
          RunFails
    /\ UNCHANGED <<reports, nullRounds, fpc, fillTasks, fillGaps, jobs, passes, schedVars, call>>

(***************************************************************************)
(* GapFiller.Run: the query, one re-drive per gap, the update.             *)
(***************************************************************************)
\* mutant: the task filter is ignored
queryGapsUnfiltered(ledger, tasks) == HeightDesc({g \in ledger : g.status = "GAP"})

\* the open gaps, of the tasks of the filter when there is one
queryGaps(ledger, tasks) ==
    IF Len(tasks) # 0
    THEN HeightDesc({g \in ledger : g.status = "GAP" /\ g.task \in Range(tasks)})
    ELSE HeightDesc({g \in ledger : g.status = "GAP"})

\* the re-drive of a gap: chain.NewWalker(indexer, opener, gap.Height, gap.Height)
\* with an indexer of the one task gap.Task
Job(gap, outcome) ==
    [from |-> gap.height, to |-> gap.height, tasks |-> <<gap.task>>, outcome |-> outcome]

\* gap.Status after its re-drive
StatusAfter(outcome) == IF outcome = "ok" THEN "FILLED" ELSE outcome

\* the completion records after a successful re-drive of the gap
ReDrive(rs, gap) ==
    {r \in rs : ~(r.height = gap.height /\ r.tipset = gap.tipset /\ r.task = gap.task)}
        \cup {[height |-> gap.height, tipset |-> gap.tipset, task |-> gap.task, status |-> "OK"]}

\* Model(&gaps).WherePK().Update(): every row of the list replaces the row of its key
updateGaps(ledger, list) ==
    {IF \E k \in 1..Len(list) : SameKey(list[k], g)
     THEN list[CHOOSE k \in 1..Len(list) : SameKey(list[k], g)]
     ELSE g : g \in ledger}

\* the rows of a ledger or list whose status is an error text
Errors(rows) == {g \in rows : g.status \notin {"GAP", "FILLED"}}

FillQuery ==
    /\ fpc = "idle"
    /\ ipc = "idle"
    /\ passes < MaxPasses
    /\ passes' = passes + 1
    /\ \E tasks \in TaskFilters :
       \/ /\ fillTasks' = tasks
          /\ fillGaps' = queryGaps(gaps, tasks)
          /\ fpc' = "loop"
       \/ \* the query fails and Run returns the error
          UNCHANGED <<fillTasks, fillGaps, fpc>>
    /\ UNCHANGED <<reports, nullRounds, gaps, ipc, audit, heightGaps, skipGaps, jobs, schedVars, call>>

FillOne ==
    /\ fpc = "loop"
    /\ Len(jobs) < Len(fillGaps)
    /\ LET idx == Len(jobs) + 1
           gap == fillGaps[idx]
       IN  \E outcome \in {"ok", FillErr} :
           /\ outcome # "ok" => Cardinality(Errors(gaps) \cup Errors(Range(fillGaps))) < MaxFailures
           /\ fillGaps' = [fillGaps EXCEPT ![idx].status = StatusAfter(outcome)]
           /\ jobs' = Append(jobs, Job(gap, outcome))
           /\ reports' = IF outcome = "ok" THEN ReDrive(reports, gap) ELSE reports
           /\ audit' = IF reports' # reports THEN Disturbed ELSE audit
    /\ UNCHANGED <<nullRounds, gaps, ipc, heightGaps, skipGaps, fpc, fillTasks, passes, schedVars, call>>

\* mutant: the first failed re-drive ends the loop
FillUpdateAfterFailure ==
    /\ fpc = "loop"
    /\ Len(jobs) = Len(fillGaps) \/ (jobs # <<>> /\ jobs[Len(jobs)].outcome # "ok")
    /\ \/ gaps' = updateGaps(gaps, fillGaps)
       \/ /\ fillGaps # <<>>
          /\ UNCHANGED gaps
    /\ fpc' = "idle"
    /\ fillTasks' = <<>>
    /\ fillGaps' = <<>>
    /\ jobs' = <<>>
    /\ UNCHANGED <<reports, nullRounds, ipc, audit, heightGaps, skipGaps, passes, schedVars, call>>

FillUpdate ==
    /\ fpc = "loop"
    /\ Len(jobs) = Len(fillGaps)
    /\ \/ gaps' = updateGaps(gaps, fillGaps)
       \/ \* the update fails and Run returns the error
          /\ fillGaps # <<>>
          /\ UNCHANGED gaps
    /\ fpc' = "idle"
    /\ fillTasks' = <<>>
    /\ fillGaps' = <<>>
    /\ jobs' = <<>>
    /\ UNCHANGED <<reports, nullRounds, ipc, audit, heightGaps, skipGaps, passes, schedVars, call>>

(***************************************************************************)
(* The specifications.                                                     *)
(***************************************************************************)
GapIdle ==
    /\ gaps = {}
    /\ ipc = "idle"
    /\ audit = "none"
    /\ heightGaps = <<>>
    /\ skipGaps = <<>>
    /\ fpc = "idle"
    /\ fillTasks = <<>>
    /\ fillGaps = <<>>
    /\ jobs = <<>>
    /\ passes = 0

\* no function call is being looked at
NoCall == [fn |-> "none", arg |-> <<>>, out |-> <<>>, done |-> FALSE]

\* the scheduler: the workers of the message processor and Processor.Start
Init ==
    /\ SchedInit
    /\ GapIdle
    /\ call = NoCall
    /\ nullRounds = {}
    /\ reports = {}

Next == SchedNext

Spec == Init /\ [][Next]_vars

\* the gap auditor over a chain with any null rounds between epoch 0 and the top
GapInit ==
    /\ SchedInit
    /\ GapIdle
    /\ call = NoCall
    /\ nullRounds \in SUBSET (1..(TopHeight - 1))
    /\ reports \in {rs \in SUBSET ReportRows :
                       /\ Cardinality(rs) <= MaxReports
                       /\ \A r, q \in rs : r.height = q.height /\ r.task = q.task => r = q}

GapNext ==
    \/ WriteReport
    \/ RunDetectProcessingGaps
    \/ RunDetectSkippedTipSets
    \/ RunPersist
    \/ FillQuery
    \/ FillOne
    \/ FillUpdate

GapSpec == GapInit /\ [][GapNext]_vars

\* the key of a tipset at h that a reorganisation of the chain has replaced
StaleKey(h) == <<h, "fork">>

\* the completion records when skipped tipsets may since have been replaced
SkipRows ==
    ReportRows \cup
    {[height |-> h, tipset |-> StaleKey(h), task |-> AllTasks[k], status |-> "SKIP"] :
        h \in Heights \ nullRounds, k \in 1..Len(AllTasks)}

\* the audit over completion records some of which name a replaced tipset
SkipInit ==
    /\ SchedInit
    /\ GapIdle
    /\ call = NoCall
    /\ nullRounds \in SUBSET (1..(TopHeight - 1))
    /\ reports \in {rs \in SUBSET SkipRows :
                       /\ Cardinality(rs) <= MaxReports
                       /\ \A r, q \in rs : r.height = q.height /\ r.task = q.task => r = q}

SkipNext ==
    \/ RunDetectProcessingGaps
    \/ RunDetectSkippedTipSets
    \/ RunPersist

SkipSpec == SkipInit /\ [][SkipNext]_vars

\* the fill job run repeatedly on a ledger that earlier audits have written
RetryInit ==
    /\ SchedInit
    /\ call = NoCall
    /\ nullRounds = {}
    /\ reports = {}
    /\ gaps \in {G \in SUBSET {GapReport(h, Key(h), AllTasks[k], "GAP") :
                                   h \in Heights, k \in 1..Len(AllTasks)} :
                    Cardinality(G) <= MaxReports}
    /\ ipc = "idle" /\ audit = "none" /\ heightGaps = <<>> /\ skipGaps = <<>>
    /\ fpc = "idle" /\ fillTasks = <<>> /\ fillGaps = <<>> /\ jobs = <<>>
    /\ passes = 0

RetryNext == FillQuery \/ FillOne \/ FillUpdate

RetrySpec == RetryInit /\ [][RetryNext]_vars

\* the statuses the fill job leaves on a gap record
LedgerStatuses == {"GAP", "FILLED", FillErr}

\* the audit run repeatedly, the ledger holding at most one record of an
\* earlier audit, which a fill pass may have updated since
AuditInit ==
    /\ SchedInit
    /\ call = NoCall
    /\ nullRounds \in SUBSET (1..(TopHeight - 1))
    /\ reports \in {rs \in SUBSET ReportRows :
                       /\ Cardinality(rs) <= MaxReports
                       /\ \A r, q \in rs : r.height = q.height /\ r.task = q.task => r = q}
    /\ gaps \in {{}} \cup {{GapReport(h, Key(h), AllTasks[k], st)} :
                              h \in Heights \ nullRounds, k \in 1..Len(AllTasks), st \in LedgerStatuses}
    /\ ipc = "idle" /\ audit = "none" /\ heightGaps = <<>> /\ skipGaps = <<>>
    /\ fpc = "idle" /\ fillTasks = <<>> /\ fillGaps = <<>> /\ jobs = <<>>
    /\ passes = 0

AuditSpec == AuditInit /\ [][SkipNext]_vars

\* the gap auditor with the parent's cancellation signal
CancelNext == GapNext \/ Cancel

CancelSpec == GapInit /\ [][CancelNext]_vars

(***************************************************************************)
(* Calls of single functions, the scheduler and the auditor being at rest. *)
(***************************************************************************)
Quiet ==
    /\ SchedInit
    /\ GapIdle
    /\ nullRounds = {}
    /\ reports = {}

\* the call of fn with this argument, before it is made
Call(fn, arg) == [fn |-> fn, arg |-> arg, out |-> <<>>, done |-> FALSE]

\* the recorded heights are within 0..MaxEpoch
MaxEpoch == 10

\* findEpochGaps is given the distinct recorded heights, highest first
EpochInit ==
    /\ Quiet
    /\ call \in {Call("findEpochGaps", Descending(S)) : S \in SUBSET (0..MaxEpoch)}

CallFindEpochGaps ==
    /\ call.fn = "findEpochGaps"
    /\ ~call.done
    /\ call' = [call EXCEPT !.out = findEpochGaps(call.arg), !.done = TRUE]
    /\ UNCHANGED <<schedVars, gapVars>>

EpochSpec == EpochInit /\ [][CallFindEpochGaps]_vars

\* the rows a lease query can find in the store
StoreRows == {PendingRow, DoneRow("")} \cup {LeasedRow(u) : u \in 0..LeaseLength}

\* one lease query, as processBatch issues it at time t, on any store
LeaseInit ==
    /\ Quiet
    /\ call \in {Call("LeaseTipSetMessages",
                       [st |-> st, t |-> t, until |-> t + LeaseLength, limit |-> limit,
                        minH |-> minH, maxH |-> maxH]) :
                     st \in [Items -> StoreRows], t \in 0..MaxTime, limit \in 0..BatchSize,
                     minH \in 0..(NumItems - 1), maxH \in 1..(NumItems - 1)}

CallLeaseTipSetMessages ==
    /\ call.fn = "LeaseTipSetMessages"
    /\ ~call.done
    /\ \E S \in LeaseChoices(call.arg.st, call.arg.t, call.arg.limit, call.arg.minH, call.arg.maxH) :
          call' = [call EXCEPT !.out = [rows |-> S,
                                        st |-> LeaseTipSetMessages(call.arg.st, S, call.arg.until)],
                               !.done = TRUE]
    /\ UNCHANGED <<schedVars, gapVars>>

LeaseSpec == LeaseInit /\ [][CallLeaseTipSetMessages]_vars

(***************************************************************************)
(* chain/actors/builtin/miner: the choice of the diffing strategy.         *)
(***************************************************************************)
\* builtinN.StorageMinerActorCodeID and builtinN.StorageMarketActorCodeID
MinerCode(v) == <<"storageminer", v>>
MarketCode(v) == <<"storagemarket", v>>

\* State.Code() of a miner state: the miner actor of a version, "5" standing
\* for a version this build does not know
MinerCodes == {MinerCode(v) : v \in {"0", "2", "3", "4", "5"}}

\* miner3.SectorsAmtBitwidth and miner4.SectorsAmtBitwidth
Miner3SectorsAmtBitwidth == 5
Miner4SectorsAmtBitwidth == 5

\* -1 stands for the error "unknown actor code"
SectorsAmtBitwidth(c) ==
    CASE c = MinerCode("0") -> 3
      [] c = MinerCode("2") -> 3
      [] c = MinerCode("3") -> Miner3SectorsAmtBitwidth
      [] c = MinerCode("4") -> Miner4SectorsAmtBitwidth
      [] OTHER -> -1

arrayRequiresLegacyDiffing(pre, cur, pOpts, cOpts) ==
    \/ pre = MarketCode("0")
    \/ pre = MarketCode("2")
    \/ cur = MarketCode("0")
    \/ cur = MarketCode("2")
    \/ pOpts # cOpts

mapRequiresLegacyDiffing(pre, cur, pOpts, cOpts) ==
    \/ pre = MinerCode("0")
    \/ pre = MinerCode("2")
    \/ cur = MinerCode("0")
    \/ cur = MinerCode("2")
    \/ pOpts # cOpts

\* adt.MapOpts: the bitwidth and the hash function of a map
MapOpts == [bitwidth : {3, 5}, hashFunc : {"sha256", "sha256-v2"}]

\* what adt.MapOptsForActorCode returns for an unknown actor code
NoMapOpts == [bitwidth |-> -1, hashFunc |-> "unknown actor code"]

MapOptsOrError == MapOpts \cup {NoMapOpts}

\* which diffing DiffSectors uses: diff.GenericArray or diff.Amt
DiffSectors(pre, cur) ==
    LET preOpts == SectorsAmtBitwidth(pre)
        curOpts == SectorsAmtBitwidth(cur)
    IN  IF preOpts = -1 \/ curOpts = -1 THEN "error"
        ELSE IF arrayRequiresLegacyDiffing(pre, cur, preOpts, curOpts) THEN "generic"
        ELSE "structural"

\* which diffing DiffPreCommits uses: diff.GenericMap or diff.Hamt
DiffPreCommits(pre, cur, preOpts, curOpts) ==
    IF preOpts = NoMapOpts \/ curOpts = NoMapOpts THEN "error"
    ELSE IF mapRequiresLegacyDiffing(pre, cur, preOpts, curOpts) THEN "generic"
    ELSE "structural"

DiffInit ==
    /\ Quiet
    /\ call \in {Call("DiffSectors", [pre |-> pre, cur |-> cur]) : pre \in MinerCodes, cur \in MinerCodes}
             \cup {c \in {Call("DiffPreCommits", [pre |-> pre, cur |-> cur, preOpts |-> po, curOpts |-> co]) :
                             pre \in MinerCodes, cur \in MinerCodes,
                             po \in MapOptsOrError, co \in MapOptsOrError} :
                       \* the options are a function of the code, undefined for an unknown one
                       /\ c.arg.preOpts = NoMapOpts <=> c.arg.pre = MinerCode("5")
                       /\ c.arg.curOpts = NoMapOpts <=> c.arg.cur = MinerCode("5")
                       /\ c.arg.pre = c.arg.cur => c.arg.preOpts = c.arg.curOpts}

CallDiffSectors ==
    /\ call.fn = "DiffSectors"
    /\ ~call.done
    /\ call' = [call EXCEPT !.out = DiffSectors(call.arg.pre, call.arg.cur), !.done = TRUE]
    /\ UNCHANGED <<schedVars, gapVars>>

CallDiffPreCommits ==
    /\ call.fn = "DiffPreCommits"
    /\ ~call.done
    /\ call' = [call EXCEPT !.out = DiffPreCommits(call.arg.pre, call.arg.cur,
                                                    call.arg.preOpts, call.arg.curOpts),
                              !.done = TRUE]
    /\ UNCHANGED <<schedVars, gapVars>>

DiffNext == CallDiffSectors \/ CallDiffPreCommits

DiffSpec == DiffInit /\ [][DiffNext]_vars

(***************************************************************************)
(* chain/actors/builtin/miner: what a diff yields.  A container (the       *)
(* sectors array or the pre-commit map of a miner state) maps a sector     *)
(* number to the raw bytes of its entry; two entries have the same bytes   *)
(* iff they are the same record.                                           *)
(***************************************************************************)
SectorNumbers == {42, 77}

Expirations == {50, 100}

\* the raw bytes stored for sector k: its expiration and the other fields
RawEntries(k) == [number : {k}, expiration : Expirations, rest : {0, 1}]

\* no entry under a key
NoEntry == [number |-> -1, expiration |-> -1, rest |-> -1]

Containers == {c \in [SectorNumbers -> UNION {RawEntries(k) : k \in SectorNumbers} \cup {NoEntry}] :
                  \A k \in SectorNumbers : c[k] = NoEntry \/ c[k].number = k}

KeysOf(c) == {k \in SectorNumbers : c[k] # NoEntry}

\* a miner State: its actor code, the options of its maps, one container
States == {s \in [code : MinerCodes, opts : MapOptsOrError, entries : Containers] :
              s.opts = NoMapOpts <=> s.code = MinerCode("5")}

\* State.decodeSectorOnChainInfo and State.decodeSectorPreCommitOnChainInfo:
\* the entry as the state's version of the actor reads it
decode(state, val) ==
    [SectorNumber |-> val.number, Expiration |-> val.expiration, rest |-> val.rest,
     by |-> state.code]

RECURSIVE Ascending(_)
Ascending(S) ==
    IF S = {} THEN <<>>
    ELSE LET m == CHOOSE x \in S : \A y \in S : x <= y
         IN  <<m>> \o Ascending(S \ {m})

\* one amt.Change or hamt.Change
ChangeOf(prec, curc, k) ==
    [Type |-> IF prec[k] = NoEntry THEN "Add" ELSE IF curc[k] = NoEntry THEN "Remove" ELSE "Modify",
     Key |-> k, Before |-> prec[k], After |-> curc[k]]

ChangesAt(prec, curc, keys) == [i \in 1..Len(keys) |-> ChangeOf(prec, curc, keys[i])]

\* amt.Diff and hamt.Diff: the keys whose entries differ, in the order of the walk
StructuralChangesWithUnchanged(prec, curc) ==
    ChangesAt(prec, curc, Ascending(KeysOf(prec) \cup KeysOf(curc)))

StructuralChanges(prec, curc) ==
    ChangesAt(prec, curc, Ascending({k \in SectorNumbers : prec[k] # curc[k]}))

\* diff.GenericArray and diff.GenericMap: the entries of the previous side that
\* are gone or have other bytes, then the entries only the current side has
GenericChangesAsReplace(prec, curc) ==
    ChangesAt(prec, [k \in SectorNumbers |-> NoEntry], Ascending(KeysOf(prec) \ KeysOf(curc)))
    \o ChangesAt(prec, [k \in SectorNumbers |-> NoEntry],
                 Ascending({k \in KeysOf(prec) \cap KeysOf(curc) : prec[k] # curc[k]}))
    \o ChangesAt([k \in SectorNumbers |-> NoEntry], curc,
                 Ascending({k \in KeysOf(curc) : k \notin KeysOf(prec) \/ prec[k] # curc[k]}))

GenericChanges(prec, curc) ==
    ChangesAt(prec, curc, Ascending({k \in KeysOf(prec) : prec[k] # curc[k]}))
    \o ChangesAt(prec, curc, Ascending(KeysOf(curc) \ KeysOf(prec)))

\* NewSectorDiffContainer and NewPreCommitDiffContainer: the empty Results;
\* modified lists the keys handed to Modify
NewDiffContainer == [Added |-> <<>>, Extended |-> <<>>, Removed |-> <<>>, modified |-> <<>>]

ContainerAddByPrevious(m, pre, cur, val) ==
    [m EXCEPT !.Added = Append(@, decode(pre, val))]

ContainerAddToRemoved(m, pre, cur, val) ==
    [m EXCEPT !.Removed = Append(@, decode(cur, val))]

ContainerAdd(m, pre, cur, val) ==
    [m EXCEPT !.Added = Append(@, decode(cur, val))]

ContainerRemove(m, pre, cur, val) ==
    [m EXCEPT !.Removed = Append(@, decode(pre, val))]

sectorModifyAlways(m, pre, cur, key, from, to) ==
    [m EXCEPT !.modified = Append(@, key),
              !.Extended = Append(@, [From |-> decode(pre, from), To |-> decode(cur, to)])]

sectorModify(m, pre, cur, key, from, to) ==
    LET siFrom == decode(pre, from)
        siTo == decode(cur, to)
    IN  [m EXCEPT !.modified = Append(@, key),
                  !.Extended = IF siFrom.Expiration # siTo.Expiration
                               THEN Append(@, [From |-> siFrom, To |-> siTo])
                               ELSE @]

preCommitModify(m, pre, cur, key, from, to) ==
    [m EXCEPT !.modified = Append(@, key)]

\* the switch on change.Type, for the changes from the i-th on
RECURSIVE ApplyChanges(_, _, _, _, _, _)
ApplyChanges(m, pre, cur, sectors, changes, i) ==
    IF i > Len(changes) THEN m
    ELSE LET ch == changes[i]
             n == CASE ch.Type = "Add" -> ContainerAdd(m, pre, cur, ch.After)
                    [] ch.Type = "Remove" -> ContainerRemove(m, pre, cur, ch.Before)
                    [] OTHER -> IF sectors
                                THEN sectorModify(m, pre, cur, ch.Key, ch.Before, ch.After)
                                ELSE preCommitModify(m, pre, cur, ch.Key, ch.Before, ch.After)
         IN  ApplyChanges(n, pre, cur, sectors, changes, i + 1)

\* what a diff returns: the changes, or nil and an error
Returned(m) == [nil |-> FALSE, err |-> "", changes |-> m]

Failed(err) == [nil |-> TRUE, err |-> err, changes |-> NewDiffContainer]

ChangesVia(strategy, pre, cur, sectors) ==
    ApplyChanges(NewDiffContainer, pre, cur, sectors,
                 IF strategy = "generic" THEN GenericChanges(pre.entries, cur.entries)
                 ELSE StructuralChanges(pre.entries, cur.entries), 1)

DiffSectorsResultUnchecked(pre, cur) ==
    Returned(ChangesVia("structural", pre, cur, TRUE))

DiffSectorsResult(pre, cur) ==
    LET strategy == DiffSectors(pre.code, cur.code)
    IN  IF strategy = "error" THEN Failed("unknown actor code")
        ELSE Returned(ChangesVia(strategy, pre, cur, TRUE))

DiffPreCommitsResult(pre, cur) ==
    LET strategy == DiffPreCommits(pre.code, cur.code, pre.opts, cur.opts)
    IN  IF strategy = "error" THEN Failed("unknown actor code")
        ELSE Returned(ChangesVia(strategy, pre, cur, FALSE))

\* a diff of any two miner states
ContentInit ==
    /\ Quiet
    /\ call \in {c \in {Call(fn, [pre |-> pre, cur |-> cur]) :
                           fn \in {"DiffSectorsResult", "DiffPreCommitsResult"},
                           pre \in States, cur \in States} :
                    /\ c.arg.pre.code = c.arg.cur.code => c.arg.pre.opts = c.arg.cur.opts
                    \* DiffSectors does not ask for the options of the maps
                    /\ c.fn = "DiffSectorsResult" =>
                          \A o \in {c.arg.pre.opts, c.arg.cur.opts} :
                              o = NoMapOpts \/ o = [bitwidth |-> 5, hashFunc |-> "sha256"]}

CallDiffSectorsResult ==
    /\ call.fn = "DiffSectorsResult"
    /\ ~call.done
    /\ call' = [call EXCEPT !.out = DiffSectorsResult(call.arg.pre, call.arg.cur), !.done = TRUE]
    /\ UNCHANGED <<schedVars, gapVars>>

CallDiffPreCommitsResult ==
    /\ call.fn = "DiffPreCommitsResult"
    /\ ~call.done
    /\ call' = [call EXCEPT !.out = DiffPreCommitsResult(call.arg.pre, call.arg.cur), !.done = TRUE]
    /\ UNCHANGED <<schedVars, gapVars>>

ContentNext == CallDiffSectorsResult \/ CallDiffPreCommitsResult

ContentSpec == ContentInit /\ [][ContentNext]_vars

(***************************************************************************)
(* tasks/actorstate: the extraction of the verified registry actor.  A     *)
(* registry maps an address to its data cap.                               *)
(***************************************************************************)
Addresses == {101, 102}

DataCaps == {10, 20}

NoDataCap == -1

Registries == [Addresses -> DataCaps \cup {NoDataCap}]

Members(r) == {a \in Addresses : r[a] # NoDataCap}

\* the verifiers and the verified clients of a state of the actor
RegistryContents == [verifiers : Registries, clients : Registries]

\* the epochs of the tipset an actor is extracted at, 0 being genesis
Epochs == {0, 1, 2}

\* ActorInfo and what the node answers: the actor's state at the tipset (cur),
\* whether StateGetActor finds the actor at the parent tipset and its state
\* there (prev), and whether a diff of the two fails.  A state that is never
\* read is taken equal to the current one.
ActorInfos ==
    {a \in [Epoch : Epochs, parent : {"found", "not found", "failed"}, diffFails : BOOLEAN,
            prev : RegistryContents, cur : RegistryContents] :
        /\ a.Epoch = 0 => a.parent = "not found"
        /\ a.parent # "found" => a.prev = a.cur}

\* verifreg.Load: a state object of its own identity
Load(ref, contents) == [ref |-> ref, contents |-> contents]

HasPreviousStateByHeight(ec) == ~(ec.CurrTs = 1)

HasPreviousState(ec) == ~(ec.CurrTs = 1 \/ ec.PrevState = ec.CurrState)

NewVerifiedRegistryExtractorContext(a) ==
    LET curState == Load("current", a.cur)
        ec(prevState) == [err |-> "", PrevState |-> prevState, CurrState |-> curState,
                          CurrTs |-> a.Epoch]
    IN  IF a.Epoch # 0
        THEN CASE a.parent = "not found" -> ec(curState)
               [] a.parent = "failed" ->
                    [ec(curState) EXCEPT !.err = "loading previous verified registry actor"]
               [] OTHER -> ec(Load("previous", a.prev))
        ELSE ec(curState)

\* verifreg.DiffVerifiers and verifreg.DiffVerifiedClients
DiffRegistry(pre, cur) ==
    LET entries(r, keys) == [i \in 1..Len(keys) |-> [Address |-> keys[i], DataCap |-> r[keys[i]]]]
        changed == Ascending({a \in Members(pre) \cap Members(cur) : pre[a] # cur[a]})
    IN  [Added |-> entries(cur, Ascending(Members(cur) \ Members(pre))),
         Removed |-> entries(pre, Ascending(Members(pre) \ Members(cur))),
         Modified |-> [i \in 1..Len(changed) |->
                          [Before |-> [Address |-> changed[i], DataCap |-> pre[changed[i]]],
                           After |-> [Address |-> changed[i], DataCap |-> cur[changed[i]]]]]]

\* TipSet.ParentState of the tipset of an epoch
ParentState(epoch) == <<"parent state root", epoch>>

\* a row stamped with the tipset before the current one
VerifregRowOfParent(ec, addr, dcap) ==
    [Height |-> ec.CurrTs - 1, StateRoot |-> ParentState(ec.CurrTs - 1), Address |-> addr,
     DataCap |-> dcap]

\* a VerifiedRegistryVerifier / VerifiedRegistryVerifiedClient row
VerifregRow(ec, addr, dcap) ==
    [Height |-> ec.CurrTs, StateRoot |-> ParentState(ec.CurrTs), Address |-> addr, DataCap |-> dcap]

\* a VerifiedRegistryVerifierEvent / VerifiedRegistryClientEvent row
VerifregEvent(ec, event, addr) ==
    [Height |-> ec.CurrTs, StateRoot |-> ParentState(ec.CurrTs), Event |-> event, Address |-> addr]

\* ExtractVerifiers and ExtractVerifiedClients, kind naming the registry;
\* diffed tells whether the diff was called
ExtractRegistry(ec, kind, diffFails) ==
    IF ~HasPreviousState(ec)
    THEN LET keys == Ascending(Members(ec.CurrState.contents[kind]))
         IN  [err |-> "", diffed |-> FALSE,
              rows |-> [i \in 1..Len(keys) |->
                           VerifregRow(ec, keys[i], ec.CurrState.contents[kind][keys[i]])],
              events |-> [i \in 1..Len(keys) |-> VerifregEvent(ec, "ADDED", keys[i])]]
    ELSE IF diffFails
    THEN [err |-> "diffing verifier registry", diffed |-> TRUE, rows |-> <<>>, events |-> <<>>]
    ELSE LET changes == DiffRegistry(ec.PrevState.contents[kind], ec.CurrState.contents[kind])
         IN  [err |-> "", diffed |-> TRUE,
              rows |-> [i \in 1..Len(changes.Added) |->
                           VerifregRow(ec, changes.Added[i].Address, changes.Added[i].DataCap)]
                       \o [i \in 1..Len(changes.Modified) |->
                              VerifregRow(ec, changes.Modified[i].After.Address,
                                          changes.Modified[i].After.DataCap)],
              events |-> [i \in 1..Len(changes.Added) |->
                             VerifregEvent(ec, "ADDED", changes.Added[i].Address)]
                         \o [i \in 1..Len(changes.Removed) |->
                                VerifregEvent(ec, "REMOVED", changes.Removed[i].Address)]]

ExtractVerifiers(ec, diffFails) == ExtractRegistry(ec, "verifiers", diffFails)

ExtractVerifiedClients(ec, diffFails) == ExtractRegistry(ec, "clients", diffFails)

\* what Extract returns when it fails after so many calls of a diff
ExtractFailed(err, diffs) ==
    [err |-> err, diffs |-> diffs, verifiers |-> <<>>, verifierEvents |-> <<>>,
     clients |-> <<>>, clientsEvents |-> <<>>]

\* VerifiedRegistryExtractor.Extract
Extract(a) ==
    LET ec == NewVerifiedRegistryExtractorContext(a)
        v == ExtractVerifiers(ec, a.diffFails)
        c == ExtractVerifiedClients(ec, a.diffFails)
        n(r) == IF r.diffed THEN 1 ELSE 0
    IN  IF ec.err # "" THEN ExtractFailed(ec.err, 0)
        ELSE IF v.err # "" THEN ExtractFailed(v.err, n(v))
        ELSE IF c.err # "" THEN ExtractFailed(c.err, n(v) + n(c))
        ELSE [err |-> "", diffs |-> n(v) + n(c), verifiers |-> v.rows, verifierEvents |-> v.events,
              clients |-> c.rows, clientsEvents |-> c.events]

ExtractInit ==
    /\ Quiet
    /\ call \in {Call("Extract", a) : a \in ActorInfos}

CallExtract ==
    /\ call.fn = "Extract"
    /\ ~call.done
    /\ call' = [call EXCEPT !.out = Extract(call.arg), !.done = TRUE]
    /\ UNCHANGED <<schedVars, gapVars>>

ExtractSpec == ExtractInit /\ [][CallExtract]_vars

(***************************************************************************)
(* chain/message: extractMessageModels, over the messages of the blocks    *)
(* of one tipset.                                                          *)
(***************************************************************************)
\* a tipset has 1..MaxBlocks blocks
MaxBlocks == 2

\* the CIDs of the blocks of a tipset of n blocks
TipSetBlocks(n) == {"b" \o ToString(i) : i \in 1..n}

\* the messages of the chain: their CID, the kind of their signature and their gas limit
ChainMessages ==
    {[Cid |-> "m1", Sig |-> "bls", GasLimit |-> 10],
     [Cid |-> "m2", Sig |-> "bls", GasLimit |-> 20],
     [Cid |-> "m3", Sig |-> "secp", GasLimit |-> 40]}

\* the sequences that list every element of S once
Orders(S) == {s \in [1..Cardinality(S) -> S] : \A i, j \in 1..Cardinality(S) : s[i] = s[j] => i = j}

\* api.BlockMessages: the BLS and the secp messages a block includes, each once
BlockMessagesOf ==
    {[BlsMessages |-> bls, SecpkMessages |-> secp] :
        bls \in UNION {Orders(S) : S \in SUBSET {m \in ChainMessages : m.Sig = "bls"}},
        secp \in UNION {Orders(S) : S \in SUBSET {m \in ChainMessages : m.Sig = "secp"}}}

\* blkMsgs as fetchMessages builds it: the messages of every block of the tipset
BlkMsgs == UNION {[TipSetBlocks(n) -> BlockMessagesOf] : n \in 1..MaxBlocks}

\* what the loops have collected
NoModels ==
    [msgModels |-> <<>>, bmsgModels |-> <<>>, pmsgModels |-> <<>>, msgsSeen |-> {},
     totalGasLimit |-> 0, totalUniqGasLimit |-> 0]

\* the body of the loop over vmm when every message is taken as unseen
RecordMessageUnseen(acc, height, blk, message) ==
    [acc EXCEPT !.bmsgModels = Append(@, [Block |-> blk, Message |-> message.Cid]),
                !.totalUniqGasLimit = @ + message.GasLimit,
                !.totalGasLimit = @ + message.GasLimit,
                !.pmsgModels = Append(@, [Cid |-> message.Cid, Height |-> height]),
                !.msgModels = Append(@, [Cid |-> message.Cid, GasLimit |-> message.GasLimit]),
                !.msgsSeen = @ \cup {message.Cid}]

\* the body of the loop over vmm
RecordMessage(acc, height, blk, message) ==
    IF message.Cid \in acc.msgsSeen
    THEN [acc EXCEPT !.bmsgModels = Append(@, [Block |-> blk, Message |-> message.Cid]),
                     !.totalUniqGasLimit = @ + message.GasLimit]
    ELSE [acc EXCEPT !.bmsgModels = Append(@, [Block |-> blk, Message |-> message.Cid]),
                     !.totalUniqGasLimit = @ + message.GasLimit,
                     !.totalGasLimit = @ + message.GasLimit,
                     !.pmsgModels = Append(@, [Cid |-> message.Cid, Height |-> height]),
                     !.msgModels = Append(@, [Cid |-> message.Cid, GasLimit |-> message.GasLimit]),
                     !.msgsSeen = @ \cup {message.Cid}]

\* the loop over vmm, from its i-th message on
RECURSIVE RecordMessages(_, _, _, _, _)
RecordMessages(acc, height, blk, vmm, i) ==
    IF i > Len(vmm) THEN acc
    ELSE RecordMessages(RecordMessage(acc, height, blk, vmm[i]), height, blk, vmm, i + 1)

\* the loop over blkMsgs, the map being ranged over in the given order, from
\* its i-th block on
RECURSIVE RecordBlocks(_, _, _, _, _)
RecordBlocks(acc, height, blkMsgs, order, i) ==
    IF i > Len(order) THEN acc
    ELSE LET msgs == blkMsgs[order[i]]
             vmm == msgs.BlsMessages \o msgs.SecpkMessages
         IN  RecordBlocks(RecordMessages(acc, height, order[i], vmm, 1), height, blkMsgs, order, i + 1)

\* extractMessageModels: the models and the two totals of the gas economy, or
\* the error of a context that is done when a block is taken up
extractMessageModels(height, blkMsgs, order, ctxDone) ==
    IF ctxDone THEN [err |-> CtxErr, models |-> NoModels]
    ELSE [err |-> "", models |-> RecordBlocks(NoModels, height, blkMsgs, order, 1)]

\* the totals of the MessageGasEconomy row; wasteNumerator is the numerator of
\* GasWasteRatio
MessageGasEconomy(models) ==
    [GasLimitTotal |-> models.totalGasLimit,
     GasLimitUniqueTotal |-> models.totalUniqGasLimit,
     wasteNumerator |-> models.totalGasLimit - models.totalUniqGasLimit]

MessagesInit ==
    /\ Quiet
    /\ call \in {Call("extractMessageModels", [height |-> h, blkMsgs |-> b]) :
                    h \in {1}, b \in BlkMsgs}

CallExtractMessageModels ==
    /\ call.fn = "extractMessageModels"
    /\ ~call.done
    /\ \E order \in Orders(DOMAIN call.arg.blkMsgs), ctxDone \in BOOLEAN :
          call' = [call EXCEPT !.out = extractMessageModels(call.arg.height, call.arg.blkMsgs,
                                                           order, ctxDone),
                               !.done = TRUE]
    /\ UNCHANGED <<schedVars, gapVars>>

MessagesSpec == MessagesInit /\ [][CallExtractMessageModels]_vars

(***************************************************************************)
(* chain/message: processTipSet and the persistence of its models.  The    *)
(* database is the four tables messages, block_messages, receipts and      *)
(* visor_processing_messages, in this order, each a list of rows with      *)
(* their primary key.                                                      *)
(***************************************************************************)
\* processTipSet is run up to MaxRuns times for one tipset
MaxRuns == 2

EmptyDb == <<<<>>, <<>>, <<>>, <<>>>>

\* a row to insert, with its primary key
Keyed(pk, row) == [pk |-> pk, row |-> row]

\* an INSERT that ignores no conflict
InsertRowAlways(table, keyed) == Append(table, keyed)

\* tx.ModelContext(ctx, m).OnConflict("do nothing").Insert()
InsertRow(table, keyed) ==
    IF \E i \in 1..Len(table) : table[i].pk = keyed.pk THEN table ELSE Append(table, keyed)

\* PersistWithTx of a list of models, from the i-th on
RECURSIVE PersistWithTx(_, _, _)
PersistWithTx(table, models, i) ==
    IF i > Len(models) THEN table
    ELSE PersistWithTx(InsertRow(table, models[i]), models, i + 1)

\* the receipts of the parent's messages, fetched once for every block of the tipset
RECURSIVE fetchReceipts(_, _)
fetchReceipts(blocks, parentReceipts) ==
    IF blocks = 0 THEN <<>>
    ELSE fetchReceipts(blocks - 1, parentReceipts)
         \o [i \in 1..Len(parentReceipts) |->
                Keyed(parentReceipts[i], [Message |-> parentReceipts[i], Idx |-> i - 1])]

\* the four lists processTipSet persists, in the order of the transaction:
\* result.Messages, result.BlockMessages, result.Receipts, processingMsgs
PersistedLists(models, rcts) ==
    <<[i \in 1..Len(models.msgModels) |-> Keyed(models.msgModels[i].Cid, models.msgModels[i])],
      [i \in 1..Len(models.bmsgModels) |-> Keyed(models.bmsgModels[i], models.bmsgModels[i])],
      rcts,
      [i \in 1..Len(models.pmsgModels) |-> Keyed(models.pmsgModels[i].Cid, models.pmsgModels[i])]>>

\* a transaction that keeps what it wrote before it failed
RunInTransactionWithoutRollback(db, lists, failAfter) ==
    [err |-> IF failAfter < Len(lists) THEN "persist" ELSE "",
     db |-> [k \in 1..Len(db) |-> IF k <= failAfter THEN PersistWithTx(db[k], lists[k], 1) ELSE db[k]]]

\* DB.RunInTransaction around the PersistWithTx calls: the lists are persisted
\* one after the other; a failure after failAfter of them rolls all back
RunInTransaction(db, lists, failAfter) ==
    IF failAfter < Len(lists) THEN [err |-> "persist", db |-> db]
    ELSE [err |-> "", db |-> [k \in 1..Len(db) |-> PersistWithTx(db[k], lists[k], 1)]]

\* what can go wrong in a run: a fetch from the node, the context being done
\* in the extraction, the transaction after 0..3 of its lists
RunFailures ==
    {[at |-> "fetch messages", failAfter |-> 0], [at |-> "fetch receipts", failAfter |-> 0],
     [at |-> "extract message models", failAfter |-> 0]}
    \cup {[at |-> "persist", failAfter |-> k] : k \in 0..3}

NoRunFailure == [at |-> "", failAfter |-> 4]

processTipSet(db, ts, order, failure) ==
    IF failure.at \in {"fetch messages", "fetch receipts"} THEN [err |-> failure.at, db |-> db]
    ELSE LET rcts == fetchReceipts(Cardinality(DOMAIN ts.blkMsgs), ts.parentReceipts)
             extracted == extractMessageModels(ts.height, ts.blkMsgs, order,
                                               failure.at = "extract message models")
         IN  IF extracted.err # "" THEN [err |-> "extract message models", db |-> db]
             ELSE RunInTransaction(db, PersistedLists(extracted.models, rcts), failure.failAfter)

\* a database in which message m1 may be stored already, for another tipset
PersistInit ==
    /\ Quiet
    /\ call \in {[fn |-> "processTipSet",
                  arg |-> [height |-> 1, blkMsgs |-> b, parentReceipts |-> r, db |-> db],
                  out |-> [db |-> db, runs |-> 0, completed |-> FALSE, failedInPersist |-> FALSE,
                           ok |-> FALSE],
                  done |-> FALSE] :
                    b \in BlkMsgs, r \in {<<"p1", "p2">>},
                    db \in {EmptyDb,
                            [EmptyDb EXCEPT ![1] = <<Keyed("m1", [Cid |-> "m1", GasLimit |-> 10])>>]}}

CallProcessTipSet ==
    /\ call.fn = "processTipSet"
    /\ call.out.runs < MaxRuns
    /\ \E failure \in RunFailures \cup {NoRunFailure} :
       \* a run that fails leaves nothing of the order it took the blocks in
       \E order \in IF failure = NoRunFailure THEN Orders(DOMAIN call.arg.blkMsgs)
                     ELSE {CHOOSE o \in Orders(DOMAIN call.arg.blkMsgs) : TRUE} :
          LET run == processTipSet(call.out.db, call.arg, order, failure)
          IN  call' = [call EXCEPT !.out = [db |-> run.db,
                                            runs |-> call.out.runs + 1,
                                            completed |-> call.out.completed \/ run.err = "",
                                            failedInPersist |-> call.out.failedInPersist
                                                                \/ failure.at = "persist",
                                            ok |-> run.err = ""],
                                   !.done = (call.out.runs + 1 = MaxRuns)]
    /\ UNCHANGED <<schedVars, gapVars>>

PersistSpec == PersistInit /\ [][CallProcessTipSet]_vars

(***************************************************************************)
(* Claims about the lease-based scheduler (specification Spec).            *)
(***************************************************************************)
\* the lease a worker got on a row with its last lease query is unexpired
LiveLease(w, i) == i \in leasedTo[w] /\ now <= claimUntil[w]

\* C1: a row is never held by two callers of the lease query whose leases on
\* it are both unexpired at the same time.
C1_NoTwoLiveLeases ==
    \A w1 \in Workers, w2 \in Workers, i \in Items :
        w1 # w2 => ~(LiveLease(w1, i) /\ LiveLease(w2, i))

\* both workers were handed the same row, the second one after the first
\* one's lease had run out
C1_Witness ==
    \E i \in Items :
        /\ i \in leasedTo["A"] \cap leasedTo["B"]
        /\ LiveLease("B", i)
        /\ store[i] = LeasedRow(claimUntil["B"])

\* the time at which a worker issued its last lease query
IssuedAt(w) == claimUntil[w] - LeaseLength

\* C2: a lease query issued at a time past a row's until treats the row as
\* pending: once the query has returned, no row within the height bounds is
\* left with a lease that had expired when it was issued, unless the query
\* returned a full batch.
C2_ExpiredLeaseReclaimed ==
    (ev.op = "lease" /\ ev.ok) =>
        \/ Cardinality(leasedTo[ev.w]) = BatchSize
        \/ \A i \in Items :
              (MinHeight <= ItemHeight(i) /\ ItemHeight(i) <= MaxHeightCfg)
                  => ~(store[i].state = "leased" /\ store[i].until < IssuedAt(ev.w))

\* worker A crashed holding a row and worker B's later query returned it
C2_Witness ==
    /\ pc["A"] = "crashed"
    /\ ev.op = "lease" /\ ev.ok /\ ev.w = "B"
    /\ \E i \in leasedTo["A"] \cap leasedTo["B"] :
          /\ IssuedAt("B") > claimUntil["A"]
          /\ store[i] = LeasedRow(claimUntil["B"])
          /\ i \in Range(batch["B"])

RowMove(r, q, t) ==
    \/ q = r
    \/ r.state = "pending" /\ q.state = "leased"
    \/ r.state = "leased" /\ t > r.until /\ q.state = "leased"
    \/ r.state = "leased" /\ q.state = "done"

\* C8: a row only moves pending -> leased -> done, a lease being renewed only
\* once it has expired; a done row never changes again and no lease query
\* returns it.
C8_RowStateMachine ==
    [][\A i \in Items :
          /\ RowMove(store[i], store'[i], now)
          /\ \A w \in Workers :
                (i \in Range(batch'[w]) /\ i \notin Range(batch[w])) => store[i].state # "done"]_vars

\* a lease query ran and returned rows while another row was already done
C8_Witness ==
    /\ ev.op = "lease" /\ ev.ok
    /\ leasedTo[ev.w] # {}
    /\ \E i \in Items : store[i].state = "done" /\ store[i].detail # ""

\* the worker has just finished an item (processItemDone) in this step
Finished(w) == pc[w] = "extracting" /\ pc'[w] \in {"idle", "working", "exited"}

\* C9: when the extraction of an item fails, the error text is what is written
\* as the item's completion detail, the rest of the batch stays to be
\* processed and the worker goes on with it, or with the next batch when the
\* item was the last one.
C9_FailureIsolated ==
    [][\A w \in Workers :
          (Finished(w) /\ ev'.detail # "") =>
              /\ ev'.item = Head(batch[w])
              /\ (ev'.ok /\ store[ev'.item].state = "leased") => store'[ev'.item] = DoneRow(ev'.detail)
              /\ batch'[w] = Tail(batch[w])
              /\ pc'[w] = IF Tail(batch[w]) = <<>> THEN "idle" ELSE "working"]_vars

\* after a failed item the worker has started the next item of the same batch
C9_Witness ==
    /\ ev.op = "complete" /\ ev.detail # "" /\ ev.ok
    /\ store[ev.item] = DoneRow(ev.detail)
    /\ pc[ev.w] = "extracting"
    /\ ev.item \in leasedTo[ev.w]
    /\ Head(batch[ev.w]) \in leasedTo[ev.w] \ {ev.item}

\* C10 as stated: no failure ends a processing loop.  Run only ever returns
\* because its context was cancelled, and Processor.Start never panics.
C10_NoFailureEndsLoop ==
    /\ \A w \in Workers : pc[w] = "exited" => runErr[w] = CtxErr
    /\ procPc.pc # "panicked"

\* C10 amended: the failure of an item's extraction or of the write of its
\* completion never ends Run; Run returns only from between two batches,
\* with the error of a failed lease query or because the context was
\* cancelled; Processor.Start ends only by a panic with the error of a failed
\* collect or dispatch step, or because the context was cancelled.
C10_OnlyLeaseFailureEndsRun ==
    [][/\ \A w \in Workers :
             /\ Finished(w) => pc'[w] # "exited"
             /\ (pc[w] # "exited" /\ pc'[w] = "exited") =>
                   /\ pc[w] = "idle"
                   /\ runErr'[w] \in {LeaseErr, CtxErr}
                   /\ runErr'[w] = CtxErr => cancelled
       /\ (procPc.pc = "running" /\ procPc'.pc # "running") =>
             \/ procPc'.pc = "stopped" /\ cancelled
             \/ procPc'.pc = "panicked" /\ procPc'.err \in ProcessorFailures]_vars

\* a worker went on after a failed item and a failed completion write, while
\* another worker's Run has returned the error of its lease query
C10_Witness ==
    /\ ev.op = "complete" /\ ev.detail # "" /\ ~ev.ok
    /\ pc[ev.w] \in {"idle", "working"}
    /\ \E w \in Workers : pc[w] = "exited" /\ runErr[w] = LeaseErr
    /\ procPc.pc = "panicked"

(***************************************************************************)
(* Claims about the gap auditor (specification GapSpec).                   *)
(***************************************************************************)
\* the candidate heights of an audit: below the highest recorded height and
\* without any completion record
Candidates ==
    {h \in Heights : /\ \E r \in reports : h < r.height
                     /\ ~\E r \in reports : r.height = h}

\* the positions of the records the sequential-height detector emitted for h
EmittedFor(h) == {k \in 1..Len(heightGaps) : heightGaps[k].height = h}

\* C3: the sequential-height detector emits records for a candidate height h
\* if and only if the chain's tipset for h has height h: then exactly one
\* record of status GAP per task of the task list, with height h and the key of
\* that tipset; for a null round it emits nothing; it emits for no other height.
C3_SequentialHeightDetector ==
    (ipc = "heights" /\ audit = "running") =>
        /\ \A h \in Candidates :
              /\ EmittedFor(h) # {} <=> TipSetByHeight(h).height = h
              /\ TipSetByHeight(h).height = h =>
                    /\ Cardinality(EmittedFor(h)) = Len(AllTasks)
                    /\ \A t \in Range(AllTasks) :
                          \E k \in EmittedFor(h) :
                              heightGaps[k] = GapReport(h, TipSetByHeight(h).key, t, "GAP")
        /\ \A k \in 1..Len(heightGaps) : heightGaps[k].height \in Candidates

\* an audit with a null round and an epoch with blocks among its candidates
C3_Witness ==
    /\ ipc = "heights" /\ audit = "running"
    /\ \E h \in Candidates : h \in nullRounds /\ TipSetByHeight(h).height > h /\ EmittedFor(h) = {}
    /\ \E h \in Candidates : h \notin nullRounds /\ Cardinality(EmittedFor(h)) = Len(AllTasks)

\* C4 as stated: after an audit pass every (height, task) of a non-null epoch
\* below the highest recorded height that has no completion record has a gap
\* record, also when other tasks of the height have completion records.
C4_NoCombinationMissed ==
    audit = "ok" =>
        \A h \in Heights \ nullRounds, t \in Range(AllTasks) :
            (/\ \E r \in reports : h < r.height
             /\ ~\E r \in reports : r.height = h /\ r.task = t)
                => \E g \in gaps : g.height = h /\ g.task = t

\* the fill pass ends in this step with an update that has changed the ledger
FillUpdated == fpc = "loop" /\ fpc' = "idle" /\ gaps' # gaps

\* C5 as stated: after a fill pass every gap record it processed is FILLED if
\* its re-drive succeeded and GAP if it failed, and no gap record ever has a
\* status other than GAP and FILLED.
C5_FilledOrGap ==
    [][/\ FillUpdated =>
             \A k \in 1..Len(fillGaps) :
                 \E g \in gaps' :
                     /\ SameKey(g, fillGaps[k])
                     /\ g.status = IF jobs[k].outcome = "ok" THEN "FILLED" ELSE "GAP"
       /\ \A g \in gaps' : g.status \in {"GAP", "FILLED"}]_vars

\* the audit ends in this step with its records persisted
AuditPersisted == ipc = "skips" /\ ipc' = "idle" /\ audit' = "ok"

\* the fill pass has made its query in this step
FillQueried == fpc = "idle" /\ fpc' = "loop"

\* the fill pass has re-driven one gap in this step
FillDrove == fpc = "loop" /\ Len(jobs') = Len(jobs) + 1

\* C6: a completion record of status SKIP has a gap record after an audit
\* pass, of status GAP when the audit created it; a fill pass selects the open
\* gap records whose task passes the filter (all of them when the filter is
\* empty), runs for each of them one job over exactly the record's height with
\* exactly the record's task, and a record whose job succeeded becomes FILLED.
C6_SkipThenFill ==
    [][/\ AuditPersisted =>
             \A r \in reports : r.status = "SKIP" =>
                 \E g \in gaps' :
                     /\ g.height = r.height /\ g.task = r.task
                     /\ g.tipset = TipSetByHeight(r.height).key
                     /\ (~\E q \in gaps : SameKey(q, g)) => g.status = "GAP"
       /\ FillQueried =>
             /\ Range(fillGaps') =
                    {g \in gaps : /\ g.status = "GAP"
                                  /\ fillTasks' = <<>> \/ g.task \in Range(fillTasks')}
             /\ Len(fillGaps') = Cardinality(Range(fillGaps'))
       /\ FillDrove =>
             LET gap == fillGaps[Len(jobs')]
                 job == jobs'[Len(jobs')]
             IN  /\ job.from = gap.height /\ job.to = gap.height
                 /\ job.tasks = <<gap.task>>
                 /\ gap.status = "GAP"
                 /\ job.outcome = "ok" => fillGaps'[Len(jobs')].status = "FILLED"
       /\ FillUpdated =>
             \A k \in 1..Len(fillGaps) : jobs[k].outcome = "ok" =>
                 \E g \in gaps' : SameKey(g, fillGaps[k]) /\ g.status = "FILLED"]_vars

\* two tasks of one height were skipped and got gap records; a fill pass
\* filtered to one task has filled that task's record and left the other open
C6_Witness ==
    /\ fpc = "idle" /\ ipc = "idle"
    /\ \E g \in gaps, q \in gaps :
          /\ g.status = "FILLED" /\ g.task = "messages"
          /\ q.status = "GAP" /\ q.task = "blocks" /\ q.height = g.height
          /\ \E r \in reports : r.height = g.height /\ r.tipset = g.tipset
                                  /\ r.task = g.task /\ r.status = "OK"
          /\ \E r \in reports : r.height = q.height /\ r.tipset = q.tipset
                                  /\ r.task = q.task /\ r.status = "SKIP"

(***************************************************************************)
(* Further claims about the scheduler (specification Spec).                *)
(***************************************************************************)
\* C11 as stated: when the extraction of a leased item fails because the chain
\* source or the store is unavailable, the item is not marked done: its row
\* stays leased, to be claimed again once the lease has expired.
C11_TransientLeftLeased ==
    [][\A w \in Workers :
          (Finished(w) /\ ev'.detail \in ErrTexts) =>
              /\ store'[ev'.item] = store[ev'.item]
              /\ store[ev'.item].state = "leased" =>
                    ev'.item \in Eligible(store', store[ev'.item].until + 1, MinHeight, MaxHeightCfg)]_vars

\* C15: a worker that finds the lease deadline reached between two items of a
\* batch starts no further item of it and writes nothing: the remaining items
\* stay leased until claimUntil and can be claimed by a lease query after it;
\* the worker goes on to its next batch and Run returns no error.
C15_DeadlineAbandonsRest ==
    [][\A w \in Workers :
          (pc[w] = "working" /\ now >= claimUntil[w] /\ pc'[w] \notin {"working", "crashed"}) =>
              /\ pc'[w] = "idle"
              /\ batch'[w] = <<>>
              /\ runErr'[w] = ""
              /\ store' = store
              /\ \A i \in Range(batch[w]) :
                    store[i] = LeasedRow(claimUntil[w]) =>
                        /\ \A t \in 0..claimUntil[w] : i \notin Eligible(store', t, MinHeight, MaxHeightCfg)
                        /\ i \in Eligible(store', claimUntil[w] + 1, MinHeight, MaxHeightCfg)]_vars

\* the first item of a batch was completed, the deadline passed and the second
\* item was left leased without a completion having been tried
C15_Witness ==
    \E w \in Workers, i \in Items, j \in Items :
        /\ {i, j} \subseteq leasedTo[w] /\ i # j
        /\ pc[w] = "idle" /\ batch[w] = <<>> /\ ~cancelled
        /\ now >= claimUntil[w]
        /\ ev = [op |-> "complete", w |-> w, item |-> i, detail |-> "", ok |-> TRUE, late |-> FALSE]
        /\ store[i].state = "done"
        /\ store[j] = LeasedRow(claimUntil[w])

C12_SkipReEmittedAsStored ==
    (ipc = "skips" /\ audit = "running") =>
        \A r \in reports : r.status = "SKIP" =>
            \E k \in 1..Len(skipGaps) :
                skipGaps[k] = GapReport(r.height, r.tipset, r.task, "GAP")

\* C13 (specification EpochSpec): given the distinct recorded heights, highest
\* first, findEpochGaps returns, strictly ascending and so without duplicates,
\* exactly the heights from 0 up to but excluding the highest recorded height
\* that are not recorded; for no recorded height it returns the empty list.
C13_FindEpochGaps ==
    (call.fn = "findEpochGaps" /\ call.done) =>
        LET prs == call.arg
            out == call.out
        IN  /\ \A k \in 1..(Len(out) - 1) : out[k] < out[k + 1]
            /\ prs = <<>> => out = <<>>
            /\ prs # <<>> =>
                  Range(out) = {h \in 0..(prs[1] - 1) : h \notin Range(prs)}

\* the example of the recorded heights 10, 8 and 5
C13_Witness ==
    /\ call.fn = "findEpochGaps" /\ call.done
    /\ call.arg = <<10, 8, 5>>
    /\ call.out = <<0, 1, 2, 3, 4, 6, 7, 9>>

(***************************************************************************)
(* Claims about the choice of the diffing strategy (specification DiffSpec)*)
(***************************************************************************)
\* the miner actor of a version whose containers the newer traversal cannot read
LegacyMiner(c) == c \in {MinerCode("0"), MinerCode("2")}

\* the two sides' parameters of the container differ
ParametersDiffer ==
    IF call.fn = "DiffSectors"
    THEN SectorsAmtBitwidth(call.arg.pre) # SectorsAmtBitwidth(call.arg.cur)
    ELSE call.arg.preOpts # call.arg.curOpts

\* C14 as stated: DiffSectors and DiffPreCommits use generic diffing if and
\* only if either side is a miner actor of version 0 or 2 or the parameters of
\* the two sides differ, and structural diffing in every other case.
C14_DiffStrategy ==
    (call.fn \in {"DiffSectors", "DiffPreCommits"} /\ call.done /\ call.out # "error") =>
        /\ call.out \in {"generic", "structural"}
        /\ call.out = "generic" <=>
              \/ LegacyMiner(call.arg.pre)
              \/ LegacyMiner(call.arg.cur)
              \/ ParametersDiffer

\* C19 as stated (specification GapSpec): a completion record of status
\* ERROR, as left by an extraction that failed on an unsupported actor
\* version, has a gap record after the next audit pass.
C19_ErroredRecordSurfaced ==
    audit = "ok" =>
        \A r \in reports : r.status = "ERROR" =>
            \E g \in gaps : g.height = r.height /\ g.task = r.task

\* the audit persists its records in this step
Persisted == ipc = "skips" /\ ipc' = "idle" /\ audit' # "none"

AuditStep ==
    \/ ipc' # ipc
    \/ ipc # "idle" /\ (heightGaps' # heightGaps \/ skipGaps' # skipGaps \/ gaps' # gaps)
    \/ ipc = "idle" /\ fpc = "idle" /\ fpc' = "idle" /\ passes' # passes

\* C21 (specification GapSpec): an audit pass leaves every completion record
\* and the chain as they are, and of the ledger it only adds gap records.
C21_AuditReadOnly ==
    [][AuditStep =>
          /\ reports' = reports
          /\ nullRounds' = nullRounds
          /\ store' = store
          /\ gaps \subseteq gaps'
          /\ \A g \in gaps' \ gaps : g.status = "GAP" /\ g.reporter = "gapIndexer"]_vars

\* an audit has persisted a record of each detector and the completion
\* records still hold the skipped record it found
C21_Witness ==
    /\ ipc = "idle" /\ audit = "ok" /\ passes = 1
    /\ \E r \in reports : r.status = "SKIP" /\ \E g \in gaps : g.height = r.height /\ g.task = r.task
    /\ \E g \in gaps : ~\E r \in reports : r.height = g.height

(***************************************************************************)
(* Claims about cancellation (specification CancelSpec).                   *)
(***************************************************************************)
\* in this step no worker of the scheduler leases a batch or starts an item
NoSchedulerWorkBegun ==
    /\ \A w \in Workers : pc'[w] = "extracting" => pc[w] = "extracting"
    /\ ev'.op = "lease" => ev' = ev

\* in this step the auditor looks up no candidate height or skipped record and
\* begins no re-drive of a gap
NoAuditorWorkBegun ==
    /\ Len(heightGaps') <= Len(heightGaps)
    /\ Len(skipGaps') <= Len(skipGaps)
    /\ Len(jobs') <= Len(jobs)

\* C16 as stated: once the parent's cancellation signal is raised, neither the
\* scheduler loop nor the find and fill loops of the gap auditor begin any
\* further batch, item, candidate height or re-drive of a gap.
C16_CancelStopsWork ==
    [][cancelled => (NoSchedulerWorkBegun /\ NoAuditorWorkBegun)]_vars

(***************************************************************************)
(* Claims about repeated fill passes (specification RetrySpec).            *)
(***************************************************************************)
\* C18 as stated: a gap record whose re-drive failed in one fill pass is
\* selected again by a later fill pass (whose filter its task passes), as is
\* every record not yet FILLED, so that it is filled once a re-drive succeeds.
C18_FailedGapRetried ==
    [][FillQueried =>
          \A g \in gaps :
              (g.status # "FILLED" /\ (fillTasks' = <<>> \/ g.task \in Range(fillTasks'))) =>
                  \E k \in 1..Len(fillGaps') : SameKey(fillGaps'[k], g)]_vars

(***************************************************************************)
(* Claims about what a diff yields (ContentSpec).                          *)
(***************************************************************************)
OnlyIn(a, b) == KeysOf(a.entries) \ KeysOf(b.entries)

InBothDiffering(pre, cur) ==
    {k \in KeysOf(pre.entries) \cap KeysOf(cur.entries) : pre.entries[k] # cur.entries[k]}

\* a diff of the sectors, or of the pre-commits, has returned its changes
DiffReturned(fn) == call.fn = fn /\ call.done /\ ~call.out.nil

\* C22: DiffSectors classifies by key: a key only the current side has is
\* Added once, with the value as the current side decodes it; a key only the
\* previous side has is Removed once, as the previous side decodes it; a key
\* on both sides with different bytes is handed to Modify, once; no key is in
\* two of the three classes and a key with the same bytes on both sides is in none.
C22_Classification ==
    DiffReturned("DiffSectorsResult") =>
        LET pre == call.arg.pre
            cur == call.arg.cur
            ch == call.out.changes
        IN  /\ Range(ch.Added) = {decode(cur, cur.entries[k]) : k \in OnlyIn(cur, pre)}
            /\ Len(ch.Added) = Cardinality(OnlyIn(cur, pre))
            /\ Range(ch.Removed) = {decode(pre, pre.entries[k]) : k \in OnlyIn(pre, cur)}
            /\ Len(ch.Removed) = Cardinality(OnlyIn(pre, cur))
            /\ Range(ch.modified) = InBothDiffering(pre, cur)
            /\ Len(ch.modified) = Cardinality(InBothDiffering(pre, cur))
            /\ {a.SectorNumber : a \in Range(ch.Added)} \cap {r.SectorNumber : r \in Range(ch.Removed)} = {}
            /\ {a.SectorNumber : a \in Range(ch.Added)} \cap Range(ch.modified) = {}
            /\ {r.SectorNumber : r \in Range(ch.Removed)} \cap Range(ch.modified) = {}

\* previous {sector42: expiration 100}, current {sector77: expiration 50}, the two
\* sides of different versions: Added = [sector77], Removed = [sector42], no Modify
C22_Witness ==
    /\ DiffReturned("DiffSectorsResult")
    /\ call.arg.pre.code # call.arg.cur.code
    /\ KeysOf(call.arg.pre.entries) = {42} /\ call.arg.pre.entries[42].expiration = 100
    /\ KeysOf(call.arg.cur.entries) = {77} /\ call.arg.cur.entries[77].expiration = 50
    /\ Len(call.out.changes.Added) = 1 /\ call.out.changes.Added[1].SectorNumber = 77
    /\ call.out.changes.Added[1].by = call.arg.cur.code
    /\ Len(call.out.changes.Removed) = 1 /\ call.out.changes.Removed[1].SectorNumber = 42
    /\ call.out.changes.modified = <<>>

\* the keys of the three classes of a change set
KeySets(ch) ==
    [Added |-> {a.SectorNumber : a \in Range(ch.Added)},
     Removed |-> {r.SectorNumber : r \in Range(ch.Removed)},
     Modified |-> Range(ch.modified)]

Extends(b, a) == \A k \in KeysOf(a) : b[k] = a[k]

\* C25 as stated: whenever the two containers are reachable by additions from
\* a common ancestor, the diff returns no Removed entry.
C25_CommonAncestorNoRemoved ==
    (/\ call.fn \in {"DiffSectorsResult", "DiffPreCommitsResult"}
     /\ call.done /\ ~call.out.nil
     /\ \E ancestor \in Containers :
           Extends(call.arg.pre.entries, ancestor) /\ Extends(call.arg.cur.entries, ancestor)) =>
        call.out.changes.Removed = <<>>

\* C25: whenever the current container is reachable from the previous one by
\* additions only, the diff returns no Removed entry.
C25_AdditionsNoRemoved ==
    (/\ call.fn \in {"DiffSectorsResult", "DiffPreCommitsResult"}
     /\ call.done /\ ~call.out.nil
     /\ Extends(call.arg.cur.entries, call.arg.pre.entries)) =>
        call.out.changes.Removed = <<>>

\* sector 77 added to a container that has sector 42
C25_Witness ==
    /\ DiffReturned("DiffSectorsResult")
    /\ KeysOf(call.arg.pre.entries) = {42}
    /\ KeysOf(call.arg.cur.entries) = {42, 77}
    /\ Extends(call.arg.cur.entries, call.arg.pre.entries)
    /\ Len(call.out.changes.Added) = 1
    /\ call.out.changes.Removed = <<>>

\* C26: for a sector both sides have with different bytes, DiffSectors emits
\* one extension record, From as the previous side decodes it and To as the
\* current side does, if and only if the two expirations differ; a change that
\* leaves the expiration as it is emits none, and in neither case is the
\* sector Added or Removed.  Nothing else is Extended.
C26_ExtensionFilter ==
    DiffReturned("DiffSectorsResult") =>
        LET pre == call.arg.pre
            cur == call.arg.cur
            ch == call.out.changes
            extended == {k \in InBothDiffering(pre, cur) :
                            pre.entries[k].expiration # cur.entries[k].expiration}
        IN  /\ Range(ch.Extended) = {[From |-> decode(pre, pre.entries[k]),
                                      To |-> decode(cur, cur.entries[k])] : k \in extended}
            /\ Len(ch.Extended) = Cardinality(extended)
            /\ \A k \in InBothDiffering(pre, cur) :
                  /\ k \notin KeySets(ch).Added
                  /\ k \notin KeySets(ch).Removed

\* one sector whose expiration changed and one of which another field changed
C26_Witness ==
    /\ DiffReturned("DiffSectorsResult")
    /\ InBothDiffering(call.arg.pre, call.arg.cur) = {42, 77}
    /\ call.arg.pre.entries[42].expiration # call.arg.cur.entries[42].expiration
    /\ call.arg.pre.entries[77].expiration = call.arg.cur.entries[77].expiration
    /\ Len(call.out.changes.Extended) = 1
    /\ call.out.changes.Extended[1].To.SectorNumber = 42
    /\ call.out.changes.modified = <<42, 77>>

\* C28: with an actor code on either side that this build does not know,
\* DiffSectors and DiffPreCommits return the error of the unknown code and nil
\* for the changes: no entry has reached a container.  With known codes on
\* both sides they return changes and no error.
C28_UnknownCodeFails ==
    (call.fn \in {"DiffSectorsResult", "DiffPreCommitsResult"} /\ call.done) =>
        IF call.arg.pre.code = MinerCode("5") \/ call.arg.cur.code = MinerCode("5")
        THEN /\ call.out.nil
             /\ call.out.err = "unknown actor code"
             /\ call.out.changes = NewDiffContainer
        ELSE ~call.out.nil /\ call.out.err = ""

\* the current side of an unknown code, the two containers differing in every class
C28_Witness ==
    /\ call.fn = "DiffSectorsResult" /\ call.done
    /\ call.arg.pre.code = MinerCode("4") /\ call.arg.cur.code = MinerCode("5")
    /\ OnlyIn(call.arg.pre, call.arg.cur) # {}
    /\ OnlyIn(call.arg.cur, call.arg.pre) # {}
    /\ call.out.nil /\ call.out.err = "unknown actor code"

(***************************************************************************)
(* Claims about the extraction of the verified registry (ExtractSpec).     *)
(***************************************************************************)
\* there is no previous state: the actor is extracted at genesis, or the node
\* does not find it at the parent tipset
NoPreviousSide == call.arg.Epoch = 0 \/ call.arg.parent = "not found"

\* rows and events report exactly the entries of registry r as added at the epoch
AllAdded(rows, events, r) ==
    /\ Range(rows) = {[Height |-> call.arg.Epoch, StateRoot |-> ParentState(call.arg.Epoch),
                        Address |-> a, DataCap |-> r[a]] : a \in Members(r)}
    /\ Len(rows) = Cardinality(Members(r))
    /\ Range(events) = {[Height |-> call.arg.Epoch, StateRoot |-> ParentState(call.arg.Epoch),
                          Event |-> "ADDED", Address |-> a] : a \in Members(r)}
    /\ Len(events) = Cardinality(Members(r))

\* C27: without a previous state (genesis, or the actor not found at the
\* parent tipset) the extraction calls no diff, cannot fail on one, and reports
\* every verifier and every client of the current state with one state row
\* and one ADDED event, and nothing else: no REMOVED event, no row of a
\* modification.
C27_NoPreviousSide ==
    (call.fn = "Extract" /\ call.done /\ NoPreviousSide) =>
        /\ call.out.err = ""
        /\ call.out.diffs = 0
        /\ AllAdded(call.out.verifiers, call.out.verifierEvents, call.arg.cur.verifiers)
        /\ AllAdded(call.out.clients, call.out.clientsEvents, call.arg.cur.clients)

\* an actor created at epoch 2, with two verifiers and a client, on a node
\* whose diffs would fail
C27_Witness ==
    /\ call.fn = "Extract" /\ call.done
    /\ call.arg.Epoch = 2 /\ call.arg.parent = "not found" /\ call.arg.diffFails
    /\ Members(call.arg.cur.verifiers) = Addresses
    /\ Members(call.arg.cur.clients) = {101}
    /\ call.out.err = ""
    /\ Len(call.out.verifiers) = 2 /\ Len(call.out.verifierEvents) = 2
    /\ Len(call.out.clients) = 1 /\ Len(call.out.clientsEvents) = 1

(***************************************************************************)
(* Claims about the message models (MessagesSpec).                         *)
(***************************************************************************)
\* the inclusions of the tipset: the pairs of a block and a message it includes
Inclusions(blkMsgs) ==
    UNION {{[Block |-> b, Message |-> m.Cid] :
               m \in Range(blkMsgs[b].BlsMessages) \cup Range(blkMsgs[b].SecpkMessages)} :
           b \in DOMAIN blkMsgs}

\* C29: extractMessageModels yields one message row and one processing-message
\* row for every distinct message CID of the tipset, however many blocks
\* include the message, and one block-message entry for every inclusion of a
\* message in a block.
C29_MessagesDeduplicated ==
    (call.fn = "extractMessageModels" /\ call.done /\ call.out.err = "") =>
        LET models == call.out.models
            cids == {i.Message : i \in Inclusions(call.arg.blkMsgs)}
        IN  /\ {m.Cid : m \in Range(models.msgModels)} = cids
            /\ Len(models.msgModels) = Cardinality(cids)
            /\ {m.Cid : m \in Range(models.pmsgModels)} = cids
            /\ Len(models.pmsgModels) = Cardinality(cids)
            /\ Range(models.bmsgModels) = Inclusions(call.arg.blkMsgs)
            /\ Len(models.bmsgModels) = Cardinality(Inclusions(call.arg.blkMsgs))

\* two blocks that both include m1 and m3, one of them m2 too
C29_Witness ==
    /\ call.fn = "extractMessageModels" /\ call.done /\ call.out.err = ""
    /\ DOMAIN call.arg.blkMsgs = {"b1", "b2"}
    /\ Len(call.arg.blkMsgs["b1"].BlsMessages) = 2 /\ Len(call.arg.blkMsgs["b1"].SecpkMessages) = 1
    /\ Len(call.arg.blkMsgs["b2"].BlsMessages) = 1 /\ Len(call.arg.blkMsgs["b2"].SecpkMessages) = 1
    /\ Len(call.out.models.msgModels) = 3
    /\ Len(call.out.models.pmsgModels) = 3
    /\ Len(call.out.models.bmsgModels) = 5

(***************************************************************************)
(* Claims about the persistence of the message models (PersistSpec).       *)
(***************************************************************************)
\* two databases hold the same rows, each as often
SameRows(a, b) == \A k \in 1..Len(a) : Range(a[k]) = Range(b[k]) /\ Len(a[k]) = Len(b[k])

\* the database after one successful run on the database the runs began with
OneRun ==
    processTipSet(call.arg.db, call.arg,
                  CHOOSE order \in Orders(DOMAIN call.arg.blkMsgs) : TRUE, NoRunFailure).db

\* C30: however often processTipSet is run for one tipset, and wherever its
\* runs failed, the database holds the rows of one successful run as soon as
\* one run has completed, and the rows it began with as long as none has: no
\* failed run leaves a row and no repeated run adds one.
C30_RetrySafe ==
    call.fn = "processTipSet" =>
        IF call.out.completed
        THEN SameRows(call.out.db, OneRun)
        ELSE call.out.db = call.arg.db

\* a run that failed in its transaction and the run after it, which completed,
\* for a tipset one of whose messages is stored already
C30_Witness ==
    /\ call.fn = "processTipSet"
    /\ call.out.runs = 2 /\ call.out.failedInPersist /\ call.out.ok
    /\ call.arg.db # EmptyDb
    /\ "m1" \in {i.Message : i \in Inclusions(call.arg.blkMsgs)}
    /\ Len(call.out.db[1]) > 1
    /\ Len(call.out.db[2]) > 2
    /\ Len(call.out.db[3]) = 2

\* the actor has a previous state the extraction diffs against
PreviousSideDiffed == call.arg.parent = "found" /\ call.arg.Epoch # 1

\* rows and events report the changes the diff of registry pre and registry
\* cur returns: a row for every Added entry and for the After of every
\* Modified entry; an ADDED event for every Added and a REMOVED event for
\* every Removed entry
ChangesReported(rows, events, pre, cur) ==
    LET changes == DiffRegistry(pre, cur)
        stamp(r) == r.Height = call.arg.Epoch /\ r.StateRoot = ParentState(call.arg.Epoch)
    IN  /\ {<<r.Address, r.DataCap>> : r \in Range(rows)}
             = {<<c.Address, c.DataCap>> : c \in Range(changes.Added)}
               \cup {<<c.After.Address, c.After.DataCap>> : c \in Range(changes.Modified)}
        /\ Len(rows) = Len(changes.Added) + Len(changes.Modified)
        /\ {<<e.Address, e.Event>> : e \in Range(events)}
             = {<<c.Address, "ADDED">> : c \in Range(changes.Added)}
               \cup {<<c.Address, "REMOVED">> : c \in Range(changes.Removed)}
        /\ Len(events) = Len(changes.Added) + Len(changes.Removed)
        /\ \A r \in Range(rows) : stamp(r)
        /\ \A e \in Range(events) : stamp(e)

\* C31: with a previous state, the extraction emits one state row and one
\* ADDED event for each added entry, one REMOVED event and no row for each
\* removed entry, one row with the new data cap and no event for each changed
\* entry, all with the height and the parent state root of the current tipset.
C31_ChangesReported ==
    (call.fn = "Extract" /\ call.done /\ PreviousSideDiffed /\ call.out.err = "") =>
        /\ ChangesReported(call.out.verifiers, call.out.verifierEvents,
                           call.arg.prev.verifiers, call.arg.cur.verifiers)
        /\ ChangesReported(call.out.clients, call.out.clientsEvents,
                           call.arg.prev.clients, call.arg.cur.clients)

\* a verifier added and one whose data cap changed, a client removed
C31_Witness ==
    /\ call.fn = "Extract" /\ call.done /\ PreviousSideDiffed /\ call.out.err = ""
    /\ call.out.diffs = 2
    /\ Members(call.arg.prev.verifiers) = {101} /\ Members(call.arg.cur.verifiers) = Addresses
    /\ call.arg.prev.verifiers[101] # call.arg.cur.verifiers[101]
    /\ Members(call.arg.prev.clients) = {102} /\ Members(call.arg.cur.clients) = {}
    /\ Len(call.out.verifiers) = 2 /\ Len(call.out.verifierEvents) = 1
    /\ call.out.clients = <<>> /\ Len(call.out.clientsEvents) = 1
    /\ call.out.clientsEvents[1].Event = "REMOVED"

PassRecords == skipGaps \o heightGaps

\* C34: the gap records one audit pass hands to persistence never hold two
\* records of the same (height, tipset, task), also when a completion record
\* is written between the query of the heights and the query of the skips
C34_NoDuplicateKeys ==
    ipc = "skips" =>
        \A i, j \in 1..Len(PassRecords) :
            SameKey(PassRecords[i], PassRecords[j]) => i = j

(***************************************************************************)
(* The fill job beside the workers of the message processor (DriveSpec)    *)
(***************************************************************************)
\* the worker of the message processor that runs beside the fill job
DriveWorker == "A"

\* the ledger holds one open gap of the messages task, written by an earlier audit
DriveInit ==
    /\ SchedInit
    /\ call = NoCall
    /\ nullRounds = {}
    /\ reports = {}
    /\ gaps \in {{GapReport(h, Key(h), "messages", "GAP")} : h \in Heights}
    /\ ipc = "idle" /\ audit = "none" /\ heightGaps = <<>> /\ skipGaps = <<>>
    /\ fpc = "idle" /\ fillTasks = <<>> /\ fillGaps = <<>> /\ jobs = <<>>
    /\ passes = 0

\* the worker leases and processes its batches while GapFiller.Run re-drives
\* the gaps of the ledger
DriveNext ==
    \/ processBatchLease(DriveWorker)
    \/ processBatchNext(DriveWorker)
    \/ processItemDone(DriveWorker)
    \/ Tick
    \/ FillQuery
    \/ FillOne
    \/ FillUpdate

DriveSpec == DriveInit /\ [][DriveNext]_vars

\* a worker's lease on the row of height h is live
LeasedAtHeight(h) ==
    \E i \in Items : ItemHeight(i) = h /\ store[i].state = "leased" /\ ~Expired(store[i], now)

\* C35: the fill job never re-drives the messages of a height while a worker
\* of the message processor holds an unexpired lease on the row of that height
C35_NoReDriveUnderLiveLease ==
    [][Len(jobs') = Len(jobs) + 1 =>
          LET job == jobs'[Len(jobs')]
          IN  ~("messages" \in Range(job.tasks) /\ LeasedAtHeight(job.from))]_vars

(***************************************************************************)
(* processItem block by block: fetchMessages under the batch's deadline    *)
(* (FetchSpec).  call holds the fetch of the item that is being extracted. *)
(***************************************************************************)
\* ctx.Err() of a context whose deadline has passed
DeadlineErr == "context deadline exceeded"

\* the error of a failed ChainGetBlockMessages
FetchErr == "get block messages: unavailable"

\* the worker of the message processor whose fetches are followed
FetchWorker == "A"

\* the fetch of the item at the head of w's batch is under way or finished
Fetching(w) ==
    /\ batch[w] # <<>>
    /\ call.fn = "fetchMessages"
    /\ call.arg.item = Head(batch[w])
    /\ call.arg.until = claimUntil[w]

\* processItem up to the call of fetchMessages: the tipset has `blocks` blocks
processItemTipSet(w) ==
    /\ pc[w] = "extracting"
    /\ ~Fetching(w)
    /\ \E blocks \in 1..MaxBlocks :
          call' = [fn |-> "fetchMessages",
                   arg |-> [item |-> Head(batch[w]), until |-> claimUntil[w], blocks |-> blocks],
                   out |-> [fetched |-> <<>>, err |-> ""],
                   done |-> FALSE]
    /\ UNCHANGED <<schedVars, gapVars>>

\* mutant: the blocks are fetched without a look at the context
fetchMessagesNextUnchecked(w) ==
    /\ pc[w] = "extracting"
    /\ Fetching(w)
    /\ ~call.done
    /\ \/ call' = [call EXCEPT !.out.fetched = Append(@, [blk |-> Len(@) + 1, at |-> now]),
                               !.done = (Len(call.out.fetched) + 1 = call.arg.blocks)]
       \/ call' = [call EXCEPT !.out.err = FetchErr, !.done = TRUE]
    /\ UNCHANGED <<schedVars, gapVars>>

\* one round of the loop of fetchMessages: the context is looked at, then the
\* messages of the next block are fetched
fetchMessagesNext(w) ==
    /\ pc[w] = "extracting"
    /\ Fetching(w)
    /\ ~call.done
    /\ IF CtxDone(w)
       THEN call' = [call EXCEPT !.out.err = DeadlineErr, !.done = TRUE]
       ELSE \/ call' = [call EXCEPT !.out.fetched = Append(@, [blk |-> Len(@) + 1, at |-> now]),
                                    !.done = (Len(call.out.fetched) + 1 = call.arg.blocks)]
            \/ \* ChainGetBlockMessages fails
               call' = [call EXCEPT !.out.err = FetchErr, !.done = TRUE]
    /\ UNCHANGED <<schedVars, gapVars>>

\* the rest of processItem and the completion write, once fetchMessages returned
processItemFetched(w) ==
    /\ pc[w] = "extracting"
    /\ Fetching(w)
    /\ call.done
    /\ processItemDone(w)
    /\ call.out.err # "" => ev'.detail # ""

FetchNext ==
    \/ processBatchLease(FetchWorker)
    \/ processBatchNext(FetchWorker)
    \/ processItemTipSet(FetchWorker)
    \/ fetchMessagesNext(FetchWorker)
    \/ processItemFetched(FetchWorker)
    \/ Tick

FetchSpec == Init /\ [][FetchNext]_vars

(***************************************************************************)
(* Claims about the deadline of a batch (FetchSpec)                        *)
(***************************************************************************)
\* C36: a worker begins the extraction of a leased item, and every fetch of
\* the messages of one of its blocks, no later than claimUntil of the lease
\* under which it got the item: the deadline of the batch is claimUntil and
\* is looked at before every item and before every block
C36_NothingBegunAfterDeadline ==
    [][\A w \in Workers :
          /\ (pc[w] = "working" /\ pc'[w] = "extracting") => now <= claimUntil[w]
          /\ (Fetching(w) /\ Len(call'.out.fetched) > Len(call.out.fetched)) =>
                 /\ now <= claimUntil[w]
                 /\ call.arg.until = claimUntil[w]]_vars

\* the worker fetched the first block of an item in time, found the deadline
\* reached before the second block and fetched no further block
C36_Witness ==
    /\ Fetching(FetchWorker)
    /\ call.done
    /\ call.out.err = DeadlineErr
    /\ call.arg.blocks = 2
    /\ Len(call.out.fetched) = 1
    /\ call.out.fetched[1].at < claimUntil[FetchWorker]
    /\ now >= claimUntil[FetchWorker]

(***************************************************************************)
(* Claims about the gas economy of a tipset (MessagesSpec)                 *)
(***************************************************************************)
GasLimitOf(cid) == (CHOOSE m \in ChainMessages : m.Cid = cid).GasLimit

\* the sum of the gas limits of a set of message CIDs
RECURSIVE GasLimitOfCids(_)
GasLimitOfCids(cids) ==
    IF cids = {} THEN 0
    ELSE LET c == CHOOSE x \in cids : TRUE
         IN  GasLimitOf(c) + GasLimitOfCids(cids \ {c})

\* the sum of the gas limits over a set of (block, message) inclusions
RECURSIVE GasLimitOfInclusions(_)
GasLimitOfInclusions(incl) ==
    IF incl = {} THEN 0
    ELSE LET i == CHOOSE x \in incl : TRUE
         IN  GasLimitOf(i.Message) + GasLimitOfInclusions(incl \ {i})

\* a message of the tipset is included in more than one block
InSeveralBlocks(blkMsgs) ==
    \E i, j \in Inclusions(blkMsgs) : i.Message = j.Message /\ i.Block # j.Block

\* C37: in the gas-economy row GasLimitUniqueTotal is the sum of the gas
\* limits of the distinct messages and GasLimitTotal the sum over all
\* inclusions of a message in a block, so GasLimitTotal >= GasLimitUniqueTotal
\* and the numerator of the waste ratio is never negative, and zero exactly
\* when no message is in more than one block
C37_WasteNeverNegative ==
    (call.fn = "extractMessageModels" /\ call.done /\ call.out.err = "") =>
        LET row == MessageGasEconomy(call.out.models)
            incl == Inclusions(call.arg.blkMsgs)
        IN  /\ row.GasLimitUniqueTotal = GasLimitOfCids({i.Message : i \in incl})
            /\ row.GasLimitTotal = GasLimitOfInclusions(incl)
            /\ row.GasLimitTotal >= row.GasLimitUniqueTotal
            /\ row.wasteNumerator >= 0
            /\ row.wasteNumerator = 0 <=> ~InSeveralBlocks(call.arg.blkMsgs)

(***************************************************************************)
(* Further claims about the extraction of the verified registry            *)
(* (ExtractSpec).                                                          *)
(***************************************************************************)
\* the addresses registry pre and registry cur hold with the same data cap
Unchanged(pre, cur) == {a \in Members(pre) \cap Members(cur) : pre[a] = cur[a]}

\* no row and no event speaks of an unchanged entry
UnchangedSilent(rows, events, pre, cur) ==
    /\ \A r \in Range(rows) : r.Address \notin Unchanged(pre, cur)
    /\ \A e \in Range(events) : e.Address \notin Unchanged(pre, cur)

\* C38: the extraction reports all entries as added, without a diff, only
\* when there is no distinct previous state (epoch 0, or the actor not found
\* at the parent tipset); whenever the actor has a state at the parent tipset
\* both registries are diffed and an entry that is the same in both states
\* gets no row and no event
C38_AllAddedOnlyWithoutPrevious ==
    (call.fn = "Extract" /\ call.done /\ call.arg.parent = "found" /\ call.out.err = "") =>
        /\ call.out.diffs = 2
        /\ UnchangedSilent(call.out.verifiers, call.out.verifierEvents,
                           call.arg.prev.verifiers, call.arg.cur.verifiers)
        /\ UnchangedSilent(call.out.clients, call.out.clientsEvents,
                           call.arg.prev.clients, call.arg.cur.clients)

(***************************************************************************)
(* Further claims about the fill pass (RetrySpec)                          *)
(***************************************************************************)
\* the fill pass ends in this step
FillEnds == fpc = "loop" /\ fpc' = "idle"

\* C39: a failed re-drive does not end a fill pass: when the pass ends every
\* gap record its query returned has been re-driven exactly once, the ledger
\* has not been written before, and the one update at the end writes the
\* outcome of every re-drive, of the failed ones too
C39_FailureDoesNotStopPass ==
    [][/\ FillEnds =>
             /\ Len(jobs) = Len(fillGaps)
             /\ Len(fillGaps) = Len(queryGaps(gaps, fillTasks))
             /\ \A k \in 1..Len(fillGaps) :
                    /\ SameKey(fillGaps[k], queryGaps(gaps, fillTasks)[k])
                    /\ jobs[k].from = fillGaps[k].height /\ jobs[k].to = fillGaps[k].height
                    /\ jobs[k].tasks = <<fillGaps[k].task>>
                    /\ gaps' # gaps =>
                          \E g \in gaps' : SameKey(g, fillGaps[k]) /\ g.status = StatusAfter(jobs[k].outcome)
       /\ (fpc = "loop" /\ ~FillEnds) => gaps' = gaps]_vars

\* one pass has re-driven two gaps, the first without success, and its update
\* has written both outcomes
C39_Witness ==
    /\ passes = 1 /\ fpc = "idle"
    /\ Cardinality(gaps) = 2
    /\ \E g, q \in gaps :
          /\ g.status = FillErr /\ q.status = "FILLED"
          /\ Rank(g) > Rank(q)

(***************************************************************************)
(* Further claims about the audit (AuditSpec)                              *)
(***************************************************************************)
\* a detector of GapIndexer.Run fails in this step
DetectorFails ==
    \/ ipc = "idle" /\ passes' # passes /\ ipc' = "idle"
    \/ ipc = "heights" /\ ipc' = "idle"

\* C40: when one of the two detectors of an audit fails (its query of the
\* store, or the chain's answer for one height), GapIndexer.Run returns the
\* error and persists no gap record at all: the ledger stays as it was, also
\* when the other detector had found gaps; the ledger is written by the last
\* step of a run only
C40_FailedAuditPersistsNothing ==
    [][/\ DetectorFails =>
             /\ gaps' = gaps
             /\ audit' = "none"
             /\ heightGaps' = <<>> /\ skipGaps' = <<>>
       /\ gaps' # gaps => (ipc = "skips" /\ audit' = "ok")]_vars

\* a run has ended in a failure with nothing persisted, on completion records
\* for which the height detector and the skip detector both find gaps
C40_Witness ==
    /\ passes = 1 /\ ipc = "idle" /\ audit = "none"
    /\ gaps = {}
    /\ detectProcessingGaps(reports) # <<>>
    /\ SkippedReports(reports) # <<>>

====
